---- MODULE Spec2Model ----
(***************************************************************************)
(* A model of the 19box jukebox session core: the Notification Hub and the *)
(* SubscribeNotifications handlers, the Listener Registry, and the Session *)
(* Manager with its state store and Playback Controller.                   *)
(*                                                                         *)
(* Every goroutine is a process whose position is a pc value; one action   *)
(* is one critical section or one call on a component that has a lock of   *)
(* its own.  The subsystems are checked under separate specifications:     *)
(*   SpecHub       Notification Hub, adapters and subscribers              *)
(*   SpecRegistry  Listener Registry                                       *)
(* The Session Manager, its state store and the Playback Controller are    *)
(* checked under one specification per environment:                        *)
(*   SpecShutdown  Start and the shutdown signal (StopImmediate)           *)
(*   SpecStop      Start and the administrator's Stop                      *)
(*   SpecDeadline  Start, the deadline checker and the shutdown signal     *)
(*   SpecStopShutdown  Start, the administrator's Stop and the shutdown    *)
(*                 signal                                                  *)
(*   SpecRequest   Start and concurrent RequestTrack calls                 *)
(*   SpecSameTrack Start and two listeners' RequestTrack calls for one     *)
(*                 track                                                   *)
(*   SpecEnding    Start, a RequestTrack call and the administrator's Stop *)
(*   SpecGraceful  Start with an opening playlist and Stop, with fairness   *)
(*   SpecAdmin     Start with an opening playlist and one administrator    *)
(*                 calling Pause, Resume, Skip and Stop                    *)
(*   SpecRequestAdmin  a RequestTrack call beside Pause/Resume or Skip,    *)
(*                 with fairness                                           *)
(*   SpecTimers    Start with two opening tracks, Pause, Resume and Skip,  *)
(*                 the track-end timer's expiry and callback being two     *)
(*                 steps                                                   *)
(* The filters are functions of their arguments and are checked on inputs  *)
(* drawn from bounded sets:                                                *)
(*   SpecGate      AcceptanceDoneFilter.Check                              *)
(*   SpecDuplicate DuplicateTrackFilter.Check                              *)
(*   SpecChain     Chain.Execute over the filters of setupFilters          *)
(*   SpecRecent    filterByRecentArtists after addRecentArtists            *)
(*                                                                         *)
(* The session model has no clock.  What depends on time is a choice of    *)
(* the model (a timer fires or has not fired yet), under two assumptions   *)
(* on the configuration: every track is longer than the notification delay *)
(* and longer than the depletion threshold.  The Playback Controller with  *)
(* its virtual clock (start time, paused time, gap correction, notification*)
(* delay, depletion threshold, the end times of its timers) is checked by  *)
(* itself, time being counted in ticker periods:                           *)
(*   SpecClock     Play, Pause, Resume, Skip, Enqueue and the timers       *)
(***************************************************************************)
EXTENDS Integers, Sequences, FiniteSets, TLC

(***************************************************************************)
(* Bounds                                                                  *)
(***************************************************************************)
\* Sequence numbers handed out in one run of the hub model.
MaxNotifications == 3
\* Largest pending count the registry model drives a listener to.
MaxPending == 2
\* Join calls in one run of the registry model.
MaxJoins == 3

\* Goroutines that call Broadcast (Start, the playback-event consumer).
Broadcasters == {"b1", "b2"}
\* Streams opened by SubscribeNotifications.
Subscribers == {"s1", "s2"}
\* Listener ids the registry can allocate (uuid.New), and one id never issued.
ListenerIDs == {"u1", "u2"}
UnknownID == "u0"
\* External user ids; "" is "not given".
ExternalIDs == {"", "x1"}

\* Requester id of system-generated tracks (m.systemUser.ID, never registered).
SystemUserID == "sys"
\* The listener of the session model and its concurrent RequestTrack calls.
SessionListenerIDs == {"u1"}
Requests == {"r1", "r2"}
\* Two listeners' concurrent calls for the same track.
SameTrackRequests == {"r1", "r3"}
ReqListener(r) == IF r = "r3" THEN "u2" ELSE "u1"
ReqTrack(r) == IF r = "r2" THEN "t2" ELSE "t1"
\* Playlists of the configuration and the BGM provider's catalogue.
OpeningChoices == {<<>>, <<"o1">>}
EndingPlaylist == <<"e1", "e2">>
BGMCatalogue == {"g1"}
\* The tracks the catalog reports as not playable in the configured market
\* (Track.IsAvailableInMarket false).
UnavailableInMarket == {"e2"}
\* Capacity of the controller's event channel: make(chan Event, 10).
EventChCap == 10
\* Goroutines of the session.
Procs == {"start", "stop", "stopImmediate", "checker", "consumer",
          "pause", "resume", "skip"} \cup Requests \cup SameTrackRequests

VARIABLES
    \* ---- notification.Manager
    sequenceNo,      \* Manager.sequenceNo
    subscriptions,   \* Manager.subscriptions (the subscribers registered)
    bcast,           \* each Broadcast caller's position, sequence number, type
    inflight,        \* Stream.Send calls launched by Broadcast and not finished
    sub,             \* each SubscribeNotifications handler, its adapter, its stream
    allocLog,        \* history: sequence numbers in allocation order
    launched,        \* history: broadcasts whose fan-out was launched
    returnedMax,     \* history: largest sequence number of a returned Broadcast
    \* ---- registry.ListenerRegistry
    listeners,       \* ListenerRegistry.listeners: id -> listener.Session
    joinLog,         \* history: the Join calls, their external id and result
    \* ---- state.Manager (the state store)
    phase,           \* Manager.phase
    accepting,       \* Manager.acceptance = AcceptingRequests
    \* ---- session.Manager
    mu,              \* holder of Manager.mu, "none" when free
    pc,              \* position of each goroutine
    loc,             \* locals of each goroutine
    playCalls,       \* "go m.playback.Play()" goroutines that have not run yet
    ctxCancelled,    \* m.cancel() was called
    doneClosed,      \* close(m.done) calls so far
    playlist,        \* ids on the external session playlist
    notifLog,        \* history: notifications in Broadcast order
    endingAt,        \* history: Len(notifLog) when the phase became ending, else -1
    \* ---- playback.Controller
    ctl,
    \* ---- filter
    flt,             \* the call of a filter under examination: input and result
    \* ---- playback.Controller with its virtual clock
    timed

hubVars == <<sequenceNo, subscriptions, bcast, inflight, sub, allocLog,
             launched, returnedMax>>
regVars == <<listeners, joinLog>>
storeVars == <<phase, accepting>>
mgrVars == <<mu, pc, loc, playCalls, ctxCancelled, doneClosed, playlist, notifLog, endingAt>>
sessVars == <<storeVars, mgrVars, ctl>>
fltVars == <<flt>>
clockVars == <<timed>>
vars == <<hubVars, regVars, sessVars, fltVars, clockVars>>

\* What an action of one subsystem leaves alone in the others.
HubOnly == UNCHANGED <<regVars, sessVars, fltVars, clockVars>>
RegOnly == UNCHANGED <<hubVars, sessVars, fltVars, clockVars>>
SessOnly == UNCHANGED <<hubVars, fltVars, clockVars>>

(***************************************************************************)
(* Helpers                                                                 *)
(***************************************************************************)
Max(a, b) == IF a >= b THEN a ELSE b

SeqToSet(s) == {s[i] : i \in 1..Len(s)}

(***************************************************************************)
(* Notification Hub                                                        *)
(***************************************************************************)
\* Start broadcasts CHANGE_STATE; the event consumer's onTrackStarted CHANGE_TRACK.
TypeOf(b) == IF b = "b1" THEN "CHANGE_STATE" ELSE "CHANGE_TRACK"

\* m.sequenceNo++ ; return m.sequenceNo  (under sequenceNoMu)
NextSequenceNoStale(c) == c
NextSequenceNo(c) == c + 1

IdleSub == [proto |-> "none", pc |-> "idle", seq |-> 0, buffer |-> <<>>,
            ready |-> FALSE, flushing |-> <<>>, stream |-> <<>>]

HubInit ==
    /\ sequenceNo = 0
    /\ subscriptions = {}
    /\ bcast = [b \in Broadcasters |-> [pc |-> "idle", seq |-> 0, type |-> "none", floor |-> 0]]
    /\ inflight = {}
    /\ sub = [s \in Subscribers |-> IdleSub]
    /\ allocLog = <<>>
    /\ launched = {}
    /\ returnedMax = 0

\* Broadcast, first critical section: take the next sequence number.
BroadcastAlloc(b) ==
    /\ HubOnly
    /\ bcast[b].pc = "idle"
    /\ Len(allocLog) < MaxNotifications
    /\ sequenceNo' = NextSequenceNo(sequenceNo)
    /\ bcast' = [bcast EXCEPT ![b] = [pc |-> "snapshot", seq |-> sequenceNo',
                                      type |-> TypeOf(b), floor |-> returnedMax]]
    /\ allocLog' = Append(allocLog, sequenceNo')
    /\ UNCHANGED <<subscriptions, inflight, sub, launched, returnedMax>>

\* Broadcast, second critical section: copy the subscriptions under RLock and
\* start one Send goroutine per subscriber.
BroadcastSnapshot(b) ==
    /\ HubOnly
    /\ bcast[b].pc = "snapshot"
    /\ inflight' = inflight \cup
          {[sub |-> s, seq |-> bcast[b].seq, type |-> bcast[b].type, stage |-> "call"]
             : s \in subscriptions}
    /\ launched' = launched \cup {bcast[b].seq}
    /\ bcast' = [bcast EXCEPT ![b].pc = "wait"]
    /\ UNCHANGED <<sequenceNo, subscriptions, sub, allocLog, returnedMax>>

\* Broadcast returns: wg.Wait() ends when every send has finished or has
\* run into its 500 ms deadline (the Send goroutine itself keeps running).
BroadcastReturn(b) ==
    /\ HubOnly
    /\ bcast[b].pc = "wait"
    /\ bcast' = [bcast EXCEPT ![b].pc = "idle"]
    /\ returnedMax' = Max(returnedMax, bcast[b].seq)
    /\ UNCHANGED <<sequenceNo, subscriptions, inflight, sub, allocLog, launched>>

Note(t, n) == [type |-> t, seq |-> n]

\* notificationStreamAdapter.Send of the buffering adapter, its locked part:
\* not ready -> append to the buffer and return; ready -> go on to write.
AdapterSendBuffered(s, m) ==
    /\ sub[s].proto = "buffered"
    /\ IF ~sub[s].ready
          THEN /\ sub' = [sub EXCEPT ![s].buffer = Append(@, Note(m.type, m.seq))]
               /\ inflight' = inflight \ {m}
          ELSE /\ inflight' = (inflight \ {m}) \cup {[m EXCEPT !.stage = "write"]}
               /\ UNCHANGED sub

\* A Send goroutine enters the adapter of a subscriber whose handler runs.
AdapterSend(m) ==
    /\ HubOnly
    /\ m \in inflight
    /\ m.stage = "call"
    /\ sub[m.sub].pc # "closed"
    /\ \/ AdapterSendBuffered(m.sub, m)
       \/ /\ sub[m.sub].proto = "direct"
          /\ inflight' = (inflight \ {m}) \cup {[m EXCEPT !.stage = "write"]}
          /\ UNCHANGED sub
    /\ UNCHANGED <<sequenceNo, subscriptions, bcast, allocLog, launched, returnedMax>>

\* a.stream.Send(notification): the write on the subscriber's stream.
StreamWrite(m) ==
    /\ HubOnly
    /\ m \in inflight
    /\ m.stage = "write"
    /\ sub[m.sub].pc # "closed"
    /\ sub' = [sub EXCEPT ![m.sub].stream = Append(@, Note(m.type, m.seq))]
    /\ inflight' = inflight \ {m}
    /\ UNCHANGED <<sequenceNo, subscriptions, bcast, allocLog, launched, returnedMax>>

\* A send to a stream whose handler has returned fails; the error is ignored.
SendFails(m) ==
    /\ HubOnly
    /\ m \in inflight
    /\ sub[m.sub].pc = "closed"
    /\ inflight' = inflight \ {m}
    /\ UNCHANGED <<sequenceNo, subscriptions, bcast, sub, allocLog, launched, returnedMax>>

(***************************************************************************)
(* SubscribeNotifications, buffering handler                               *)
(***************************************************************************)
\* Manager.Subscribe(adapter) -> (id, sequenceNo): registers the adapter and
\* allocates the sequence number of its INITIAL_STATE.
Subscribe(s) ==
    /\ HubOnly
    /\ sub[s].pc = "idle"
    /\ Len(allocLog) < MaxNotifications
    /\ sequenceNo' = NextSequenceNo(sequenceNo)
    /\ subscriptions' = subscriptions \cup {s}
    /\ sub' = [sub EXCEPT ![s] = [@ EXCEPT !.proto = "buffered", !.pc = "subscribed",
                                           !.seq = sequenceNo']]
    /\ allocLog' = Append(allocLog, sequenceNo')
    /\ UNCHANGED <<bcast, inflight, launched, returnedMax>>

\* GetStatus, build the notification, stream.Send(initialNotification).
SendInitialState(s) ==
    /\ HubOnly
    /\ sub[s].pc = "subscribed"
    /\ sub' = [sub EXCEPT ![s].stream = Append(@, Note("INITIAL_STATE", sub[s].seq)),
                          ![s].pc = "initial_sent"]
    /\ UNCHANGED <<sequenceNo, subscriptions, bcast, inflight, allocLog, launched, returnedMax>>

\* Flush, its locked part: ready = true, take the buffer.
FlushBegin(s) ==
    /\ HubOnly
    /\ sub[s].pc = "initial_sent"
    /\ sub' = [sub EXCEPT ![s].ready = TRUE, ![s].flushing = sub[s].buffer,
                          ![s].buffer = <<>>, ![s].pc = "flushing"]
    /\ UNCHANGED <<sequenceNo, subscriptions, bcast, inflight, allocLog, launched, returnedMax>>

\* Flush, its loop: one stream.Send per buffered notification, in order.
FlushWrite(s) ==
    /\ HubOnly
    /\ sub[s].pc = "flushing"
    /\ IF sub[s].flushing = <<>>
          THEN sub' = [sub EXCEPT ![s].pc = "streaming"]
          ELSE sub' = [sub EXCEPT ![s].stream = Append(@, Head(sub[s].flushing)),
                                  ![s].flushing = Tail(@)]
    /\ UNCHANGED <<sequenceNo, subscriptions, bcast, inflight, allocLog, launched, returnedMax>>

\* ctx.Done or session done: the handler returns and unsubscribes.
Unsubscribe(s) ==
    /\ HubOnly
    /\ sub[s].pc = "streaming"
    /\ subscriptions' = subscriptions \ {s}
    /\ sub' = [sub EXCEPT ![s].pc = "closed"]
    /\ UNCHANGED <<sequenceNo, bcast, inflight, allocLog, launched, returnedMax>>

(***************************************************************************)
(* SubscribeNotifications, direct handler: sequence number, snapshot,      *)
(* INITIAL_STATE, and only then Subscribe with a pass-through adapter.     *)
(***************************************************************************)
DirectNextSequenceNo(s) ==
    /\ HubOnly
    /\ sub[s].pc = "idle"
    /\ Len(allocLog) < MaxNotifications
    /\ sequenceNo' = NextSequenceNo(sequenceNo)
    /\ sub' = [sub EXCEPT ![s] = [@ EXCEPT !.proto = "direct", !.pc = "seq_taken",
                                           !.seq = sequenceNo']]
    /\ allocLog' = Append(allocLog, sequenceNo')
    /\ UNCHANGED <<subscriptions, bcast, inflight, launched, returnedMax>>

DirectSendInitialState(s) ==
    /\ HubOnly
    /\ sub[s].pc = "seq_taken"
    /\ sub' = [sub EXCEPT ![s].stream = Append(@, Note("INITIAL_STATE", sub[s].seq)),
                          ![s].pc = "initial_sent_direct"]
    /\ UNCHANGED <<sequenceNo, subscriptions, bcast, inflight, allocLog, launched, returnedMax>>

DirectSubscribe(s) ==
    /\ HubOnly
    /\ sub[s].pc = "initial_sent_direct"
    /\ subscriptions' = subscriptions \cup {s}
    /\ sub' = [sub EXCEPT ![s].pc = "streaming"]
    /\ UNCHANGED <<sequenceNo, bcast, inflight, allocLog, launched, returnedMax>>

HubNext ==
    \/ \E b \in Broadcasters : BroadcastAlloc(b)
    \/ \E b \in Broadcasters : BroadcastSnapshot(b)
    \/ \E b \in Broadcasters : BroadcastReturn(b)
    \/ \E m \in inflight : AdapterSend(m)
    \/ \E m \in inflight : StreamWrite(m)
    \/ \E m \in inflight : SendFails(m)
    \/ \E s \in Subscribers : Subscribe(s)
    \/ \E s \in Subscribers : SendInitialState(s)
    \/ \E s \in Subscribers : FlushBegin(s)
    \/ \E s \in Subscribers : FlushWrite(s)
    \/ \E s \in Subscribers : Unsubscribe(s)
    \/ \E s \in Subscribers : DirectNextSequenceNo(s)
    \/ \E s \in Subscribers : DirectSendInitialState(s)
    \/ \E s \in Subscribers : DirectSubscribe(s)

(***************************************************************************)
(* Listener Registry                                                       *)
(***************************************************************************)
\* listener.NewSession
NewSession(externalUserID, isVIP) ==
    [ExternalUserID |-> externalUserID, VIPStatus |-> isVIP, IsKicked |-> FALSE,
     PendingTracks |-> 0, TotalRequests |-> 0, LastRequestSet |-> FALSE]

\* Session.IncrementPendingTracks
IncrementPendingTracks(l) ==
    [l EXCEPT !.PendingTracks = @ + 1, !.TotalRequests = @ + 1, !.LastRequestSet = TRUE]

\* Session.DecrementPendingTracks: only while PendingTracks > 0
DecrementPendingTracksUnguarded(l) == [l EXCEPT !.PendingTracks = @ - 1]
DecrementPendingTracks(l) ==
    IF l.PendingTracks > 0 THEN [l EXCEPT !.PendingTracks = @ - 1] ELSE l

\* ListenerRegistry.IncrementPending: ErrInvalidListener for an unknown id
IncrementPending(reg, id) ==
    IF id \in DOMAIN reg THEN [reg EXCEPT ![id] = IncrementPendingTracks(@)] ELSE reg

\* ListenerRegistry.DecrementPending: nothing for an unknown id
DecrementPending(reg, id) ==
    IF id \in DOMAIN reg THEN [reg EXCEPT ![id] = DecrementPendingTracks(@)] ELSE reg

\* ListenerRegistry.Kick
Kick(reg, id) ==
    IF id \in DOMAIN reg THEN [reg EXCEPT ![id].IsKicked = TRUE] ELSE reg

\* ListenerRegistry.Join: the sessions a rejoin by external id may return
Rejoinable(reg, externalUserID) ==
    IF externalUserID = "" THEN {}
    ELSE {id \in DOMAIN reg :
             reg[id].ExternalUserID = externalUserID /\ ~reg[id].IsKicked}

\* The map with one more entry.
Put(reg, id, l) == [k \in DOMAIN reg \cup {id} |-> IF k = id THEN l ELSE reg[k]]

AnyID == ListenerIDs \cup {UnknownID}

RegInit ==
    /\ listeners = [id \in {} |-> NewSession("", FALSE)]
    /\ joinLog = <<>>

\* What Join returned for externalUserID.
Joined(externalUserID, id) == [ext |-> externalUserID, id |-> id]

\* Join returning a session with the external id whether kicked or not.
RegJoinKicked(externalUserID, isVIP) ==
    /\ RegOnly
    /\ Len(joinLog) < MaxJoins
    /\ LET same == {id \in DOMAIN listeners :
                       externalUserID # ""
                       /\ listeners[id].ExternalUserID = externalUserID}
       IN  IF same # {}
              THEN /\ \E id \in same : joinLog' = Append(joinLog, Joined(externalUserID, id))
                   /\ UNCHANGED listeners
              ELSE \E id \in ListenerIDs \ DOMAIN listeners :
                      /\ listeners' = Put(listeners, id, NewSession(externalUserID, isVIP))
                      /\ joinLog' = Append(joinLog, Joined(externalUserID, id))

\* ListenerRegistry.Join; uuid.New() is an id no listener has.
RegJoin(externalUserID, isVIP) ==
    /\ RegOnly
    /\ Len(joinLog) < MaxJoins
    /\ IF Rejoinable(listeners, externalUserID) # {}
          THEN /\ \E id \in Rejoinable(listeners, externalUserID) :
                     joinLog' = Append(joinLog, Joined(externalUserID, id))
               /\ UNCHANGED listeners
          ELSE \E id \in ListenerIDs \ DOMAIN listeners :
                  /\ listeners' = Put(listeners, id, NewSession(externalUserID, isVIP))
                  /\ joinLog' = Append(joinLog, Joined(externalUserID, id))

RegKick(id) ==
    /\ RegOnly
    /\ listeners' = Kick(listeners, id)
    /\ UNCHANGED joinLog

RegIncrementPending(id) ==
    /\ RegOnly
    /\ id \in DOMAIN listeners => listeners[id].TotalRequests < MaxPending
    /\ listeners' = IncrementPending(listeners, id)
    /\ UNCHANGED joinLog

RegDecrementPending(id) ==
    /\ RegOnly
    /\ listeners' = DecrementPending(listeners, id)
    /\ UNCHANGED joinLog

RegNext ==
    \/ \E x \in ExternalIDs, v \in BOOLEAN : RegJoin(x, v)
    \/ \E id \in AnyID : RegKick(id)
    \/ \E id \in AnyID : RegIncrementPending(id)
    \/ \E id \in AnyID : RegDecrementPending(id)

(***************************************************************************)
(* Playback Controller                                                     *)
(***************************************************************************)
\* track.QueuedTrack: the track id, Requester.ID and Requester.Type.
QueuedTrack(id, requester, rtype) == [id |-> id, requester |-> requester, rtype |-> rtype]
NoTrack == QueuedTrack("", "", "")

\* playback.Event
Event(type, qt, st) == [type |-> type, track |-> qt, state |-> st]
NoEvent == Event("", NoTrack, "")

\* A running notification-delay timer: the track it was started for; strict
\* is FALSE for the timer re-armed by resumeLocked, whose callback checks
\* only that some track is current.
DelayTimer(id, strict) == [id |-> id, strict |-> strict]

\* NewController.  timer: a live track-end timer is in the slot;
\* depletionTimer: "off", or a live timer due within the current track
\* ("current": armed with an empty queue) or after it ("later");
\* notifTimers: the running notification-delay timers, notifSlot the one
\* notificationDelayTimerCancel refers to; notifDue: the notification time of
\* the current track has not been reached; ending: the tracks whose track-end
\* timer has found its end time passed and is calling onTrackEnd.  History:
\* started, the tracks a TrackStarted event was sent for, in order; enqueued,
\* the tracks in the order they were enqueued; selected, the tracks in the
\* order they became current; cleared, the tracks ClearQueue removed.
NewController ==
    [queue |-> <<>>, played |-> <<>>, currentTrack |-> NoTrack, state |-> "idle",
     timer |-> FALSE, ending |-> {}, depletionTimer |-> "off", depletionNotified |-> FALSE,
     notifTimers |-> {}, notifSlot |-> "", notifDue |-> FALSE, eventCh |-> <<>>,
     started |-> <<>>, enqueued |-> <<>>, selected |-> <<>>, cleared |-> {}]

\* sendEventLocked without the default branch of its select, the channel
\* taking the event whatever it holds.
sendEventLockedUnbounded(c, e) ==
    [c EXCEPT !.eventCh = Append(@, e),
              !.started = IF e.type = "TrackStarted" THEN Append(@, e.track.id)
                                                     ELSE @]

\* sendEventLocked: a full channel drops the event.
sendEventLocked(c, e) ==
    IF Len(c.eventCh) < EventChCap
       THEN [c EXCEPT !.eventCh = Append(@, e),
                      !.started = IF e.type = "TrackStarted" THEN Append(@, e.track.id)
                                                             ELSE @]
       ELSE c

\* The total remaining time (current track plus queue) against the threshold.
\* A queued track, or a current track away from its end, is above it.
TotalRemaining(c) ==
    IF c.queue # <<>> \/ c.currentTrack # NoTrack THEN "above" ELSE "zero"

\* checkDepletionLocked, total being the class of totalRemaining.
checkDepletionLocked(c, total) ==
    IF c.depletionNotified THEN c
    ELSE LET c1 == [c EXCEPT !.depletionTimer = "off"]
         IN  IF total = "below"
                THEN sendEventLocked([c1 EXCEPT !.depletionNotified = TRUE],
                                     Event("QueueDepleting", c1.currentTrack, c1.state))
             ELSE IF total = "above" /\ c1.state = "playing"
                THEN [c1 EXCEPT !.depletionTimer = IF c1.queue = <<>> THEN "current"
                                                                       ELSE "later"]
             ELSE c1

\* startTrackTimer
startTrackTimer(c) == [c EXCEPT !.timer = TRUE]

\* playNextLocked that leaves the state as it is when the queue is empty.
playNextLockedKeepsState(c) ==
    IF c.queue = <<>>
       THEN sendEventLocked(c, Event("QueueEmpty", NoTrack, "idle"))
       ELSE LET qt == Head(c.queue)
                c1 == [c EXCEPT !.queue = Tail(@),
                                !.played = IF c.currentTrack # NoTrack
                                              THEN Append(@, c.currentTrack) ELSE @,
                                !.currentTrack = qt,
                                !.selected = Append(@, qt),
                                !.state = "playing"]
                c2 == checkDepletionLocked(startTrackTimer(c1), "above")
            IN  [c2 EXCEPT !.notifTimers = @ \cup {DelayTimer(qt.id, TRUE)},
                           !.notifSlot = qt.id,
                           !.notifDue = TRUE]

\* playNextLocked (NotificationDelay > 0)
playNextLocked(c) ==
    IF c.queue = <<>>
       THEN sendEventLocked([c EXCEPT !.state = "idle"], Event("QueueEmpty", NoTrack, "idle"))
       ELSE LET qt == Head(c.queue)
                c1 == [c EXCEPT !.queue = Tail(@),
                                !.played = IF c.currentTrack # NoTrack
                                              THEN Append(@, c.currentTrack) ELSE @,
                                !.currentTrack = qt,
                                !.selected = Append(@, qt),
                                !.state = "playing"]
                c2 == checkDepletionLocked(startTrackTimer(c1), "above")
            IN  [c2 EXCEPT !.notifTimers = @ \cup {DelayTimer(qt.id, TRUE)},
                           !.notifSlot = qt.id,
                           !.notifDue = TRUE]

\* onTrackEndLocked
onTrackEndLocked(c) ==
    IF c.currentTrack = NoTrack THEN c
    ELSE LET c1 == [c EXCEPT !.timer = FALSE,
                             !.played = Append(@, c.currentTrack),
                             !.currentTrack = NoTrack]
         IN  playNextLocked(sendEventLocked(c1, Event("TrackEnded", c.currentTrack, c.state)))

\* resumeLocked: the outcomes for the times the pause may have lasted.  The
\* pause does not count as elapsed, so no time remains only for a track
\* paused at its end, after its notification time.
resumeLocked(c) ==
    IF c.currentTrack = NoTrack \/ c.state # "paused" THEN {c}
    ELSE LET c1 == [c EXCEPT !.state = "playing"]
             rearmed == [c1 EXCEPT !.notifTimers = @ \cup {DelayTimer(c.currentTrack.id, FALSE)},
                                   !.notifSlot = c.currentTrack.id]
             bases == IF c.notifDue THEN {rearmed, [c1 EXCEPT !.notifDue = FALSE]} ELSE {c1}
             totals == IF c.queue = <<>> THEN {"above", "below"} ELSE {"above"}
         IN  (IF c.notifDue THEN {} ELSE {onTrackEndLocked(c1)}) \cup
             {sendEventLocked(checkDepletionLocked(startTrackTimer(b), t),
                              Event("StateChanged", c.currentTrack, "playing"))
                 : b \in bases, t \in totals}

\* timer cancel of the notification-delay timer notificationDelayTimerCancel
\* refers to.
CancelNotificationDelay(c) ==
    [c EXCEPT !.notifTimers = {t \in @ : t.id # c.notifSlot}, !.notifSlot = ""]

\* Controller.Pause
Pause(c) ==
    IF c.currentTrack = NoTrack \/ c.state # "playing" THEN c
    ELSE LET c1 == CancelNotificationDelay([c EXCEPT !.timer = FALSE,
                                                     !.depletionTimer = "off"])
         IN  sendEventLocked([c1 EXCEPT !.state = "paused"],
                             Event("StateChanged", c.currentTrack, "paused"))

\* Controller.Skip
\* Skip that drops the current track without starting the next one.
SkipWithoutNext(c) ==
    IF c.currentTrack = NoTrack THEN c
    ELSE LET c1 == CancelNotificationDelay([c EXCEPT !.timer = FALSE])
             c2 == [c1 EXCEPT !.currentTrack = NoTrack, !.state = "idle",
                              !.notifDue = FALSE]
         IN  sendEventLocked(c2, Event("TrackSkipped", c.currentTrack, "idle"))

Skip(c) ==
    IF c.currentTrack = NoTrack THEN c
    ELSE LET c1 == CancelNotificationDelay([c EXCEPT !.timer = FALSE])
             c2 == [c1 EXCEPT !.currentTrack = NoTrack, !.state = "idle",
                              !.notifDue = FALSE]
         IN  playNextLocked(sendEventLocked(c2, Event("TrackSkipped", c.currentTrack, "idle")))

\* Controller.Play
Play(c) ==
    IF c.state = "playing" THEN {c}
    ELSE IF c.state = "paused" THEN resumeLocked(c)
    ELSE {playNextLocked(c)}

\* Controller.Stop
Stop(c) ==
    [c EXCEPT !.timer = FALSE, !.depletionTimer = "off",
              !.currentTrack = NoTrack, !.state = "idle", !.notifDue = FALSE]

\* Enqueue that puts the track at the head of the queue.
EnqueueAtHead(c, qt) ==
    LET c1 == [c EXCEPT !.queue = <<qt>> \o @, !.depletionNotified = FALSE,
                        !.enqueued = Append(@, qt)]
    IN  checkDepletionLocked(c1, TotalRemaining(c1))

\* Controller.Enqueue
Enqueue(c, qt) ==
    LET c1 == [c EXCEPT !.queue = Append(@, qt), !.depletionNotified = FALSE,
                        !.enqueued = Append(@, qt)]
    IN  checkDepletionLocked(c1, TotalRemaining(c1))

\* Controller.ClearQueue: the controller afterwards (the result is c.queue).
ClearQueue(c) ==
    [c EXCEPT !.queue = <<>>, !.cleared = @ \cup {c.queue[i] : i \in 1..Len(c.queue)}]

\* Controller.GetAllTrackIDs
GetAllTrackIDs(c) ==
    {c.played[i].id : i \in 1..Len(c.played)}
       \cup (IF c.currentTrack # NoTrack THEN {c.currentTrack.id} ELSE {})
       \cup {c.queue[i].id : i \in 1..Len(c.queue)}

\* Controller.IsInQueue
IsInQueue(c, id) ==
    \/ c.currentTrack # NoTrack /\ c.currentTrack.id = id
    \/ \E i \in 1..Len(c.queue) : c.queue[i].id = id

(***************************************************************************)
(* Session Manager                                                         *)
(***************************************************************************)
NoInfo == [accepting |-> FALSE, state |-> ""]
NoPre == [queue |-> <<>>, currentTrack |-> NoTrack, played |-> <<>>, set |-> FALSE]

\* Locals of a goroutine.  pre is history: the controller's queue, current
\* track and played list when transitionToEnding took the lock; offered is
\* history: the last candidate GetCandidates returned to the goroutine.
LocInit ==
    [opening |-> <<>>, idx |-> 0, cand |-> "", offered |-> "", ev |-> NoEvent, removed |-> <<>>,
     reported |-> {}, pre |-> NoPre, btype |-> "", ret |-> "", info |-> NoInfo,
     result |-> ""]

\* state.New, session.NewManager, playback.NewController
SessInit ==
    /\ phase = "waiting"
    /\ accepting = FALSE
    /\ mu = "none"
    /\ pc = [p \in Procs |->
               IF p \in {"checker", "consumer"} THEN "off" ELSE "begin"]
    /\ loc = [p \in Procs |-> LocInit]
    /\ playCalls = 0
    /\ ctxCancelled = FALSE
    /\ doneClosed = 0
    /\ playlist = {}
    /\ notifLog = <<>>
    /\ endingAt = -1
    /\ ctl = NewController

Goto(p, l) == pc' = [pc EXCEPT ![p] = l]

\* buildSessionInfoWithStateUnlocked: the wire state of a phase and a playback state
ProtoState(ph, pb) ==
    CASE ph = "waiting" -> "WAITING"
      [] ph = "active" -> (IF pb = "paused" THEN "PAUSED"
                           ELSE IF pb = "idle" THEN "WAITING_FOR_TRACKS" ELSE "RUNNING")
      [] ph = "ending" -> "ENDING"
      [] ph = "terminated" -> "TERMINATED"
      [] OTHER -> "UNSPECIFIED"

\* close(m.done); a second close panics.
CloseDone(n) == IF n < 2 THEN n + 1 ELSE n

(***************************************************************************)
(* Timers and goroutines of the controller                                 *)
(***************************************************************************)
\* The track-end timer fires: onTrackEnd.  The notification delay of the
\* current track is over by then, and so is a depletion timer due within it.
TrackTimerFires ==
    /\ SessOnly
    /\ ctl.timer
    /\ \A t \in ctl.notifTimers : t.id # ctl.currentTrack.id
    /\ ctl.depletionTimer # "current"
    /\ ctl' = onTrackEndLocked([ctl EXCEPT !.timer = FALSE])
    /\ UNCHANGED <<regVars, storeVars, mgrVars>>

\* startWallClockTimer, the ticker branch of the track-end timer's loop: the
\* end time has passed and the goroutine goes on to call the callback; the
\* timer's cancel function no longer reaches it.
TrackTimerExpires ==
    /\ SessOnly
    /\ ctl.timer
    /\ \A t \in ctl.notifTimers : t.id # ctl.currentTrack.id
    /\ ctl.depletionTimer # "current"
    /\ ctl' = [ctl EXCEPT !.timer = FALSE, !.ending = @ \cup {ctl.currentTrack.id}]
    /\ UNCHANGED <<regVars, storeVars, mgrVars>>

\* onTrackEnd, called by the timer started for track id: it takes the lock
\* and runs onTrackEndLocked.
onTrackEnd(id) ==
    /\ SessOnly
    /\ id \in ctl.ending
    /\ ctl' = onTrackEndLocked([ctl EXCEPT !.ending = @ \ {id}])
    /\ UNCHANGED <<regVars, storeVars, mgrVars>>

\* A notification-delay timer fires: the callback of playNextLocked (strict)
\* or of resumeLocked.
NotifTimerFires(t) ==
    /\ SessOnly
    /\ t \in ctl.notifTimers
    /\ LET c1 == [ctl EXCEPT !.notifTimers = @ \ {t}, !.notifSlot = ""]
       IN  IF ctl.currentTrack = NoTrack \/ (t.strict /\ ctl.currentTrack.id # t.id)
              THEN ctl' = c1
              ELSE ctl' = sendEventLocked([c1 EXCEPT !.notifDue = FALSE],
                                          Event("TrackStarted", ctl.currentTrack, ctl.state))
    /\ UNCHANGED <<regVars, storeVars, mgrVars>>

\* The depletion timer fires.  One due within the current track finds that
\* track within the threshold of its end; any other fires after the track it
\* was armed under has ended, which re-arms it unless the queue was cleared.
DepletionTimerFires ==
    /\ SessOnly
    /\ ctl.depletionTimer # "off"
    /\ ctl.queue = <<>>
    /\ ctl.depletionTimer = "current" \/ ctl.currentTrack = NoTrack
    /\ ctl' = checkDepletionLocked([ctl EXCEPT !.depletionTimer = "off"],
                                   IF ctl.currentTrack # NoTrack THEN "below" ELSE "zero")
    /\ UNCHANGED <<regVars, storeVars, mgrVars>>

\* go func() { m.playback.Play() }()
PlayGoroutine ==
    /\ SessOnly
    /\ playCalls > 0
    /\ playCalls' = playCalls - 1
    /\ \E c \in Play(ctl) : ctl' = c
    /\ UNCHANGED <<regVars, storeVars, mu, pc, loc, ctxCancelled, doneClosed,
                   playlist, notifLog, endingAt>>

(***************************************************************************)
(* Building and broadcasting a notification                                *)
(***************************************************************************)
\* Go on to build a notification of type t, then continue at r.
BuildThen(p, t, r) ==
    /\ pc' = [pc EXCEPT ![p] = "buildInfo"]
    /\ loc' = [loc EXCEPT ![p].btype = t, ![p].ret = r]

\* m.stateMgr.BuildSessionInfo(): AcceptingRequests
BuildSessionInfo(p) ==
    /\ SessOnly
    /\ pc[p] = "buildInfo"
    /\ loc' = [loc EXCEPT ![p].info.accepting = accepting]
    /\ Goto(p, "buildState")
    /\ UNCHANGED <<regVars, storeVars, mu, playCalls, ctxCancelled, doneClosed,
                   playlist, notifLog, endingAt, ctl>>

\* GetPhase, playback.GetState: SessionInfo.State
BuildState(p) ==
    /\ SessOnly
    /\ pc[p] = "buildState"
    /\ loc' = [loc EXCEPT ![p].info.state = ProtoState(phase, ctl.state)]
    /\ Goto(p, "broadcast")
    /\ UNCHANGED <<regVars, storeVars, mu, playCalls, ctxCancelled, doneClosed,
                   playlist, notifLog, endingAt, ctl>>

\* m.notification.Broadcast
Broadcast(p) ==
    /\ SessOnly
    /\ pc[p] = "broadcast"
    /\ notifLog' = Append(notifLog, [type |-> loc[p].btype, state |-> loc[p].info.state,
                                     accepting |-> loc[p].info.accepting])
    /\ pc' = [pc EXCEPT ![p] = loc[p].ret]
    /\ loc' = [loc EXCEPT ![p].btype = "", ![p].ret = "", ![p].info = NoInfo,
                          ![p].ev = NoEvent]
    /\ UNCHANGED <<regVars, storeVars, mu, playCalls, ctxCancelled, doneClosed,
                   playlist, endingAt, ctl>>

(***************************************************************************)
(* Manager.Start                                                           *)
(***************************************************************************)
\* Lock, SetTimes, SetKeywords; a start time in the future: Unlock and wait.
StartBegin(opening, wait) ==
    /\ SessOnly
    /\ pc["start"] = "begin"
    /\ mu = "none"
    /\ loc' = [loc EXCEPT !["start"].opening = opening]
    /\ IF wait THEN Goto("start", "waitStart") /\ UNCHANGED mu
               ELSE Goto("start", "create") /\ mu' = "start"
    /\ UNCHANGED <<regVars, storeVars, playCalls, ctxCancelled, doneClosed,
                   playlist, notifLog, endingAt, ctl>>

\* time.After(waitDuration) fires; Lock.
StartWaitOver ==
    /\ SessOnly
    /\ pc["start"] = "waitStart"
    /\ mu = "none"
    /\ mu' = "start"
    /\ Goto("start", "create")
    /\ UNCHANGED <<regVars, storeVars, loc, playCalls, ctxCancelled, doneClosed,
                   playlist, notifLog, endingAt, ctl>>

\* An error of the catalog: Unlock, return err.
StartFails ==
    /\ mu' = "none"
    /\ Goto("start", "failed")

\* spotify.CreatePlaylist, SetPlaylistInfo
StartCreatePlaylist(ok) ==
    /\ SessOnly
    /\ pc["start"] = "create"
    /\ IF ok THEN /\ Goto("start", IF loc["start"].opening # <<>>
                                      THEN "opening" ELSE "endingDuration")
                  /\ UNCHANGED mu
             ELSE StartFails
    /\ loc' = [loc EXCEPT !["start"].idx = 1]
    /\ UNCHANGED <<regVars, storeVars, playCalls, ctxCancelled, doneClosed,
                   playlist, notifLog, endingAt, ctl>>

\* GetPlaylistTracks(opening), then enqueuePlaylistTracks: one Enqueue a step.
StartEnqueueOpening(ok) ==
    /\ SessOnly
    /\ pc["start"] = "opening"
    /\ LET i == loc["start"].idx
           tracks == loc["start"].opening
       IN  IF ~ok /\ i = 1
              THEN StartFails /\ UNCHANGED <<ctl, loc>>
              ELSE /\ ctl' = Enqueue(ctl, QueuedTrack(tracks[i], SystemUserID, "opening"))
                   /\ loc' = [loc EXCEPT !["start"].idx = i + 1]
                   /\ Goto("start", IF i = Len(tracks) THEN "openingAdd" ELSE "opening")
                   /\ UNCHANGED mu
    /\ UNCHANGED <<regVars, storeVars, playCalls, ctxCancelled, doneClosed,
                   playlist, notifLog, endingAt>>

\* AddTracksToPlaylist(opening tracks)
StartAddOpening(ok) ==
    /\ SessOnly
    /\ pc["start"] = "openingAdd"
    /\ IF ok THEN /\ playlist' = playlist \cup SeqToSet(loc["start"].opening)
                  /\ Goto("start", "endingDuration")
                  /\ UNCHANGED mu
             ELSE StartFails /\ UNCHANGED playlist
    /\ UNCHANGED <<regVars, storeVars, loc, playCalls, ctxCancelled, doneClosed,
                   notifLog, endingAt, ctl>>

\* GetPlaylistTracks(ending), SetEndingDuration, Unlock.
StartEndingDuration(ok) ==
    /\ SessOnly
    /\ pc["start"] = "endingDuration"
    /\ IF ok THEN /\ mu' = "none"
                  /\ Goto("start", IF loc["start"].opening = <<>> THEN "fill" ELSE "activate")
             ELSE StartFails
    /\ UNCHANGED <<regVars, storeVars, loc, playCalls, ctxCancelled, doneClosed,
                   playlist, notifLog, endingAt, ctl>>

\* Lock, SetPhase(PhaseActive)
StartSetPhase ==
    /\ SessOnly
    /\ pc["start"] = "activate"
    /\ mu = "none"
    /\ mu' = "start"
    /\ phase' = "active"
    /\ Goto("start", "startAccepting")
    /\ UNCHANGED <<regVars, accepting, loc, playCalls, ctxCancelled, doneClosed,
                   playlist, notifLog, endingAt, ctl>>

\* StartAccepting
StartStartAccepting ==
    /\ SessOnly
    /\ pc["start"] = "startAccepting"
    /\ accepting' = TRUE
    /\ Goto("start", "activated")
    /\ UNCHANGED <<regVars, phase, mu, loc, playCalls, ctxCancelled, doneClosed,
                   playlist, notifLog, endingAt, ctl>>

\* SetTimes, Unlock; go on to broadcast CHANGE_STATE.
StartUnlock ==
    /\ SessOnly
    /\ pc["start"] = "activated"
    /\ mu' = "none"
    /\ BuildThen("start", "CHANGE_STATE", "spawn")
    /\ UNCHANGED <<regVars, storeVars, playCalls, ctxCancelled, doneClosed,
                   playlist, notifLog, endingAt, ctl>>

\* go playbackLoop(); go endTimeChecker(); go Play()
StartSpawn ==
    /\ SessOnly
    /\ pc["start"] = "spawn"
    /\ pc' = [pc EXCEPT !["start"] = "done", !["consumer"] = "idle", !["checker"] = "ticking"]
    /\ playCalls' = playCalls + 1
    /\ UNCHANGED <<regVars, storeVars, mu, loc, ctxCancelled, doneClosed,
                   playlist, notifLog, endingAt, ctl>>

(***************************************************************************)
(* fillQueueWithBGM, called by Start and by the playback-event consumer    *)
(***************************************************************************)
FillCallers == {"start", "consumer"}

\* Where fillQueueWithBGM returns to.
FillReturn(p) == IF p = "start" THEN "activate" ELSE "idle"

\* GetAllTrackIDs, getRecentTracks, GetCandidates: a candidate outside the
\* exclude set, or none (also on error): return.
FillGetCandidates(p, catalogue) ==
    /\ SessOnly
    /\ pc[p] = "fill"
    /\ \/ \E c \in catalogue \ GetAllTrackIDs(ctl) :
             /\ loc' = [loc EXCEPT ![p].cand = c, ![p].offered = c, ![p].ev = NoEvent]
             /\ Goto(p, "fillPhase")
       \/ /\ loc' = [loc EXCEPT ![p].ev = NoEvent]
          /\ Goto(p, FillReturn(p))
    /\ UNCHANGED <<regVars, storeVars, mu, playCalls, ctxCancelled, doneClosed,
                   playlist, notifLog, endingAt, ctl>>

\* Leave fillQueueWithBGM.
FillLeave(p) ==
    /\ Goto(p, FillReturn(p))
    /\ loc' = [loc EXCEPT ![p].cand = ""]

\* GetPhase() != PhaseActive: return
FillCheckPhase(p) ==
    /\ SessOnly
    /\ pc[p] = "fillPhase"
    /\ IF phase # "active" THEN FillLeave(p)
                           ELSE Goto(p, "fillAccepting") /\ UNCHANGED loc
    /\ UNCHANGED <<regVars, storeVars, mu, playCalls, ctxCancelled, doneClosed,
                   playlist, notifLog, endingAt, ctl>>

\* !IsAccepting(): return
FillCheckAccepting(p) ==
    /\ SessOnly
    /\ pc[p] = "fillAccepting"
    /\ IF ~accepting THEN FillLeave(p)
                     ELSE Goto(p, "fillFilter") /\ UNCHANGED loc
    /\ UNCHANGED <<regVars, storeVars, mu, playCalls, ctxCancelled, doneClosed,
                   playlist, notifLog, endingAt, ctl>>

\* filterByRecentArtists: takes and releases Manager.mu; the candidate stays.
FillFilterByRecentArtists(p) ==
    /\ SessOnly
    /\ pc[p] = "fillFilter"
    /\ mu = "none"
    /\ Goto(p, "fillQueueEmpty")
    /\ UNCHANGED <<regVars, storeVars, mu, loc, playCalls, ctxCancelled, doneClosed,
                   playlist, notifLog, endingAt, ctl>>

\* !IsQueueEmpty(): return.  IsInQueue: the only candidate is excluded and
\* the retry finds none: return.  filterChain.Execute (Market only) rejects
\* a candidate that is not available: excluded in the same way.
FillCheckQueueEmpty(p) ==
    /\ SessOnly
    /\ pc[p] = "fillQueueEmpty"
    /\ IF \/ ctl.queue # <<>>
          \/ IsInQueue(ctl, loc[p].cand)
          \/ loc[p].cand \in UnavailableInMarket
          THEN FillLeave(p)
          ELSE Goto(p, "fillEnqueue") /\ UNCHANGED loc
    /\ UNCHANGED <<regVars, storeVars, mu, playCalls, ctxCancelled, doneClosed,
                   playlist, notifLog, endingAt, ctl>>

\* m.playback.Enqueue(qt)
FillEnqueue(p) ==
    /\ SessOnly
    /\ pc[p] = "fillEnqueue"
    /\ ctl' = Enqueue(ctl, QueuedTrack(loc[p].cand, SystemUserID, "bgm"))
    /\ Goto(p, "fillAdd")
    /\ UNCHANGED <<regVars, storeVars, mu, loc, playCalls, ctxCancelled, doneClosed,
                   playlist, notifLog, endingAt>>

\* AddTracksToPlaylist
FillAddToPlaylist(p) ==
    /\ SessOnly
    /\ pc[p] = "fillAdd"
    /\ playlist' = playlist \cup {loc[p].cand}
    /\ Goto(p, "fillRecent")
    /\ UNCHANGED <<regVars, storeVars, mu, loc, playCalls, ctxCancelled, doneClosed,
                   notifLog, endingAt, ctl>>

\* addRecentArtists: takes and releases Manager.mu.
FillAddRecentArtists(p) ==
    /\ SessOnly
    /\ pc[p] = "fillRecent"
    /\ mu = "none"
    /\ Goto(p, "fillPlay")
    /\ UNCHANGED <<regVars, storeVars, mu, loc, playCalls, ctxCancelled, doneClosed,
                   playlist, notifLog, endingAt, ctl>>

\* GetState() == StateIdle: go Play(); return.
FillPlayIfIdle(p) ==
    /\ SessOnly
    /\ pc[p] = "fillPlay"
    /\ playCalls' = IF ctl.state = "idle" THEN playCalls + 1 ELSE playCalls
    /\ FillLeave(p)
    /\ UNCHANGED <<regVars, storeVars, mu, ctxCancelled, doneClosed,
                   playlist, notifLog, endingAt, ctl>>

(***************************************************************************)
(* Manager.Stop, Manager.StopImmediate, transitionToEnding,                *)
(* terminateSession, endTimeChecker                                        *)
(***************************************************************************)
Stoppers == {"stop", "stopImmediate"}
Enders == {"stop", "checker"}
Terminators == {"stopImmediate", "consumer"}

\* Where the goroutine is once its call has returned.
Returned(p) == IF p = "consumer" THEN "idle" ELSE IF p = "checker" THEN "exited" ELSE "done"

\* Stop / StopImmediate: Lock, GetPhase.  terminated: return.  waiting:
\* SetPhase(PhaseTerminated).  ending: return.  active: Stop unlocks and calls
\* transitionToEnding, StopImmediate does SetPhase(PhaseTerminated).
StopBegin(p) ==
    /\ SessOnly
    /\ pc[p] = "begin"
    /\ mu = "none"
    /\ CASE phase = "waiting" ->
              phase' = "terminated" /\ mu' = p /\ Goto(p, "waitingCancel")
         [] phase = "active" /\ p = "stop" ->
              Goto(p, "toEnding") /\ UNCHANGED <<phase, mu>>
         [] phase = "active" /\ p = "stopImmediate" ->
              phase' = "terminated" /\ mu' = p /\ Goto(p, "termStopAccepting")
         [] OTHER ->
              Goto(p, "done") /\ UNCHANGED <<phase, mu>>
    /\ UNCHANGED <<regVars, accepting, loc, playCalls, ctxCancelled, doneClosed,
                   playlist, notifLog, endingAt, ctl>>

\* PhaseWaiting: m.cancel(), Unlock, close(m.done)
StopWaitingCancel(p) ==
    /\ SessOnly
    /\ pc[p] = "waitingCancel"
    /\ ctxCancelled' = TRUE
    /\ mu' = "none"
    /\ doneClosed' = CloseDone(doneClosed)
    /\ Goto(p, "done")
    /\ UNCHANGED <<regVars, storeVars, loc, playCalls, playlist, notifLog, endingAt, ctl>>

\* transitionToEnding: Lock; not active: return; StopAccepting.
ToEndingStopAccepting(p) ==
    /\ SessOnly
    /\ pc[p] = "toEnding"
    /\ mu = "none"
    /\ IF phase # "active"
          THEN Goto(p, Returned(p)) /\ UNCHANGED <<mu, accepting, loc>>
          ELSE /\ mu' = p
               /\ accepting' = FALSE
               /\ loc' = [loc EXCEPT ![p].pre = [queue |-> ctl.queue,
                                                 currentTrack |-> ctl.currentTrack,
                                                 played |-> ctl.played, set |-> TRUE]]
               /\ Goto(p, "toEndingSetPhase")
    /\ UNCHANGED <<regVars, phase, playCalls, ctxCancelled, doneClosed,
                   playlist, notifLog, endingAt, ctl>>

\* SetPhase(PhaseEnding)
ToEndingSetPhase(p) ==
    /\ SessOnly
    /\ pc[p] = "toEndingSetPhase"
    /\ phase' = "ending"
    /\ endingAt' = Len(notifLog)
    /\ Goto(p, "toEndingLoad")
    /\ UNCHANGED <<regVars, accepting, mu, loc, playCalls, ctxCancelled, doneClosed,
                   playlist, notifLog, ctl>>

\* Leave transitionToEnding: the deferred Unlock.
ToEndingLeave(p) ==
    /\ mu' = "none"
    /\ Goto(p, Returned(p))

\* GetPlaylistTracks(ending): error: return; else ClearQueue.
ToEndingClearQueue(p, ok) ==
    /\ SessOnly
    /\ pc[p] = "toEndingLoad"
    /\ IF ok THEN /\ ctl' = ClearQueue(ctl)
                  /\ loc' = [loc EXCEPT ![p].removed = ctl.queue, ![p].idx = 1]
                  /\ Goto(p, IF ctl.queue # <<>> THEN "toEndingRemove" ELSE "toEndingEnqueue")
                  /\ UNCHANGED mu
             ELSE /\ ToEndingLeave(p)
                  /\ loc' = [loc EXCEPT ![p].pre = NoPre]
                  /\ UNCHANGED ctl
    /\ UNCHANGED <<regVars, storeVars, playCalls, ctxCancelled, doneClosed,
                   playlist, notifLog, endingAt>>

\* RemoveTracksFromPlaylist(ids of the removed tracks)
ToEndingRemoveFromPlaylist(p) ==
    /\ SessOnly
    /\ pc[p] = "toEndingRemove"
    /\ LET ids == {loc[p].removed[i].id : i \in 1..Len(loc[p].removed)}
       IN  /\ playlist' = playlist \ ids
           /\ loc' = [loc EXCEPT ![p].reported = ids, ![p].removed = <<>>]
    /\ Goto(p, "toEndingEnqueue")
    /\ UNCHANGED <<regVars, storeVars, mu, playCalls, ctxCancelled, doneClosed,
                   notifLog, endingAt, ctl>>

\* enqueuePlaylistTracks(ending): one Enqueue a step.
ToEndingEnqueue(p) ==
    /\ SessOnly
    /\ pc[p] = "toEndingEnqueue"
    /\ LET i == loc[p].idx
       IN  /\ ctl' = Enqueue(ctl, QueuedTrack(EndingPlaylist[i], SystemUserID, "ending"))
           /\ loc' = [loc EXCEPT ![p].idx = i + 1]
           /\ Goto(p, IF i = Len(EndingPlaylist) THEN "toEndingAdd" ELSE "toEndingEnqueue")
    /\ UNCHANGED <<regVars, storeVars, mu, playCalls, ctxCancelled, doneClosed,
                   playlist, notifLog, endingAt>>

\* AddTracksToPlaylist(ending tracks); return.
ToEndingAddToPlaylist(p) ==
    /\ SessOnly
    /\ pc[p] = "toEndingAdd"
    /\ playlist' = playlist \cup SeqToSet(EndingPlaylist)
    /\ ToEndingLeave(p)
    /\ loc' = [loc EXCEPT ![p].pre = NoPre, ![p].reported = {}, ![p].idx = 0]
    /\ UNCHANGED <<regVars, storeVars, playCalls, ctxCancelled, doneClosed,
                   notifLog, endingAt, ctl>>

\* terminateSession: Lock; terminated: return; else SetPhase(PhaseTerminated).
TerminateSetPhase(p) ==
    /\ SessOnly
    /\ pc[p] = "terminate"
    /\ mu = "none"
    /\ IF phase = "terminated"
          THEN Goto(p, Returned(p)) /\ UNCHANGED <<phase, mu>>
          ELSE phase' = "terminated" /\ mu' = p /\ Goto(p, "termStopAccepting")
    /\ UNCHANGED <<regVars, accepting, loc, playCalls, ctxCancelled, doneClosed,
                   playlist, notifLog, endingAt, ctl>>

\* StopAccepting (StopImmediate and terminateSession)
TerminateStopAccepting(p) ==
    /\ SessOnly
    /\ pc[p] = "termStopAccepting"
    /\ accepting' = FALSE
    /\ Goto(p, "termPlaybackStop")
    /\ UNCHANGED <<regVars, phase, mu, loc, playCalls, ctxCancelled, doneClosed,
                   playlist, notifLog, endingAt, ctl>>

\* SetTimes, m.playback.Stop(), Unlock; go on to broadcast CHANGE_STATE.
TerminatePlaybackStop(p) ==
    /\ SessOnly
    /\ pc[p] = "termPlaybackStop"
    /\ ctl' = Stop(ctl)
    /\ mu' = "none"
    /\ BuildThen(p, "CHANGE_STATE", "termClose")
    /\ UNCHANGED <<regVars, storeVars, playCalls, ctxCancelled, doneClosed,
                   playlist, notifLog, endingAt>>

\* m.cancel(); close(m.done)
TerminateClose(p) ==
    /\ SessOnly
    /\ pc[p] = "termClose"
    /\ ctxCancelled' = TRUE
    /\ doneClosed' = CloseDone(doneClosed)
    /\ Goto(p, Returned(p))
    /\ UNCHANGED <<regVars, storeVars, mu, loc, playCalls, playlist, notifLog, endingAt, ctl>>

\* endTimeChecker: a tick in phase active with the deadline reached.
CheckerDeadline ==
    /\ SessOnly
    /\ pc["checker"] = "ticking"
    /\ phase = "active"
    /\ Goto("checker", "toEnding")
    /\ UNCHANGED <<regVars, storeVars, mu, loc, playCalls, ctxCancelled, doneClosed,
                   playlist, notifLog, endingAt, ctl>>

\* endTimeChecker: <-m.ctx.Done()
CheckerExit ==
    /\ SessOnly
    /\ pc["checker"] = "ticking"
    /\ ctxCancelled
    /\ Goto("checker", "exited")
    /\ UNCHANGED <<regVars, storeVars, mu, loc, playCalls, ctxCancelled, doneClosed,
                   playlist, notifLog, endingAt, ctl>>

(***************************************************************************)
(* Manager.Pause, Manager.Resume, Manager.Skip                             *)
(***************************************************************************)
\* The admin call returns.
AdminReturn(p, result) ==
    /\ Goto(p, "done")
    /\ loc' = [loc EXCEPT ![p].result = result]

\* Pause: GetPhase() != PhaseActive: ErrSessionNotRunning
PauseCheckPhase ==
    /\ SessOnly
    /\ pc["pause"] = "begin"
    /\ IF phase # "active" THEN AdminReturn("pause", "error")
                           ELSE Goto("pause", "call") /\ UNCHANGED loc
    /\ UNCHANGED <<regVars, storeVars, mu, playCalls, ctxCancelled, doneClosed,
                   playlist, notifLog, endingAt, ctl>>

\* Pause: m.playback.Pause()
PauseCall ==
    /\ SessOnly
    /\ pc["pause"] = "call"
    /\ ctl' = Pause(ctl)
    /\ AdminReturn("pause", IF ctl.currentTrack = NoTrack \/ ctl.state # "playing"
                               THEN "error" ELSE "ok")
    /\ UNCHANGED <<regVars, storeVars, mu, playCalls, ctxCancelled, doneClosed,
                   playlist, notifLog, endingAt>>

\* Resume: GetState() != StatePaused: ErrSessionNotPaused
ResumeCheckState ==
    /\ SessOnly
    /\ pc["resume"] = "begin"
    /\ IF ctl.state # "paused" THEN AdminReturn("resume", "error")
                               ELSE Goto("resume", "call") /\ UNCHANGED loc
    /\ UNCHANGED <<regVars, storeVars, mu, playCalls, ctxCancelled, doneClosed,
                   playlist, notifLog, endingAt, ctl>>

\* Resume: m.playback.Resume()
ResumeCall ==
    /\ SessOnly
    /\ pc["resume"] = "call"
    /\ \E c \in resumeLocked(ctl) : ctl' = c
    /\ AdminReturn("resume", IF ctl.currentTrack = NoTrack \/ ctl.state # "paused"
                                THEN "error" ELSE "ok")
    /\ UNCHANGED <<regVars, storeVars, mu, playCalls, ctxCancelled, doneClosed,
                   playlist, notifLog, endingAt>>

\* Skip: m.playback.Skip(); ErrNoTrack without a current track, and the
\* error of playNextLocked (ErrQueueEmpty) after a skip of the last track.
SkipCall ==
    /\ SessOnly
    /\ pc["skip"] = "begin"
    /\ ctl' = Skip(ctl)
    /\ AdminReturn("skip", IF ctl.currentTrack = NoTrack \/ ctl.queue = <<>>
                              THEN "error" ELSE "ok")
    /\ UNCHANGED <<regVars, storeVars, mu, playCalls, ctxCancelled, doneClosed,
                   playlist, notifLog, endingAt>>

(***************************************************************************)
(* playbackLoop and handlePlaybackEvent                                    *)
(***************************************************************************)
\* <-m.ctx.Done()
ConsumerExit ==
    /\ SessOnly
    /\ pc["consumer"] = "idle"
    /\ ctxCancelled
    /\ Goto("consumer", "exited")
    /\ UNCHANGED <<regVars, storeVars, mu, loc, playCalls, ctxCancelled, doneClosed,
                   playlist, notifLog, endingAt, ctl>>

\* event := <-m.playback.Events(); the switch of handlePlaybackEvent.
ConsumerReceive ==
    /\ SessOnly
    /\ pc["consumer"] = "idle"
    /\ ctl.eventCh # <<>>
    /\ LET e == Head(ctl.eventCh)
       IN  /\ ctl' = [ctl EXCEPT !.eventCh = Tail(@)]
           /\ CASE e.type = "TrackStarted" ->
                     loc' = [loc EXCEPT !["consumer"].ev = e] /\ Goto("consumer", "decrement")
                [] e.type = "TrackSkipped" ->
                     BuildThen("consumer", "CHANGE_TRACK", "idle")
                [] e.type = "StateChanged" ->
                     BuildThen("consumer", "CHANGE_STATE", "idle")
                [] e.type = "QueueDepleting" ->
                     Goto("consumer", "depletingPhase") /\ UNCHANGED loc
                [] e.type = "QueueEmpty" ->
                     Goto("consumer", "emptyPhase") /\ UNCHANGED loc
                [] OTHER ->
                     UNCHANGED <<pc, loc>>
    /\ UNCHANGED <<regVars, storeVars, mu, playCalls, ctxCancelled, doneClosed,
                   playlist, notifLog, endingAt>>

\* onTrackStarted: DecrementPendingTracks(qt.Requester.ID)
OnTrackStartedDecrement ==
    /\ SessOnly
    /\ pc["consumer"] = "decrement"
    /\ listeners' = DecrementPending(listeners, loc["consumer"].ev.track.requester)
    /\ UNCHANGED joinLog
    /\ BuildThen("consumer", "CHANGE_TRACK", "idle")
    /\ UNCHANGED <<storeVars, mu, playCalls, ctxCancelled, doneClosed,
                   playlist, notifLog, endingAt, ctl>>

\* onQueueDepleting: GetPhase() != PhaseActive: return
OnQueueDepletingPhase ==
    /\ SessOnly
    /\ pc["consumer"] = "depletingPhase"
    /\ Goto("consumer", IF phase = "active" THEN "depletingAccepting" ELSE "idle")
    /\ UNCHANGED <<regVars, storeVars, mu, loc, playCalls, ctxCancelled, doneClosed,
                   playlist, notifLog, endingAt, ctl>>

\* onQueueDepleting: !IsAccepting(): return; else fillQueueWithBGM
OnQueueDepletingAccepting ==
    /\ SessOnly
    /\ pc["consumer"] = "depletingAccepting"
    /\ Goto("consumer", IF accepting THEN "fill" ELSE "idle")
    /\ UNCHANGED <<regVars, storeVars, mu, loc, playCalls, ctxCancelled, doneClosed,
                   playlist, notifLog, endingAt, ctl>>

\* onQueueEmpty: GetPhase(); ending: terminateSession
OnQueueEmptyPhase ==
    /\ SessOnly
    /\ pc["consumer"] = "emptyPhase"
    /\ Goto("consumer", IF phase = "ending" THEN "terminate"
                        ELSE IF phase = "active" THEN "emptyAccepting" ELSE "idle")
    /\ UNCHANGED <<regVars, storeVars, mu, loc, playCalls, ctxCancelled, doneClosed,
                   playlist, notifLog, endingAt, ctl>>

\* onQueueEmpty: IsAccepting(): fillQueueWithBGM
OnQueueEmptyAccepting ==
    /\ SessOnly
    /\ pc["consumer"] = "emptyAccepting"
    /\ Goto("consumer", IF accepting THEN "fill" ELSE "idle")
    /\ UNCHANGED <<regVars, storeVars, mu, loc, playCalls, ctxCancelled, doneClosed,
                   playlist, notifLog, endingAt, ctl>>

(***************************************************************************)
(* Manager.Join and Manager.RequestTrack                                   *)
(***************************************************************************)
\* Join: GetPhase() == PhaseTerminated: ErrSessionNotRunning; listenerReg.Join
\* of a new non-VIP listener without external id.
ManagerJoin(id) ==
    /\ SessOnly
    /\ phase # "terminated"
    /\ id \notin DOMAIN listeners
    /\ listeners' = Put(listeners, id, NewSession("", FALSE))
    /\ joinLog' = Append(joinLog, Joined("", id))
    /\ UNCHANGED sessVars

\* The request is answered.
Reply(r, code) ==
    /\ Goto(r, "done")
    /\ loc' = [loc EXCEPT ![r].result = code]

\* GetListenerSession: invalid_listener; spotify.GetTrack: track_not_found.
RequestLookup(r, found) ==
    /\ SessOnly
    /\ pc[r] = "begin"
    /\ IF ReqListener(r) \notin DOMAIN listeners THEN Reply(r, "invalid_listener")
       ELSE IF ~found THEN Reply(r, "track_not_found")
       ELSE Goto(r, "gate") /\ UNCHANGED loc
    /\ UNCHANGED <<regVars, storeVars, mu, playCalls, ctxCancelled, doneClosed,
                   playlist, notifLog, endingAt, ctl>>

\* AcceptanceDoneFilter: !CanAcceptRequests(): acceptance_done; past the
\* deadline: time_limit_exceeded.  MarketFilter: market_restriction.
RequestAcceptanceGate(r, inTime) ==
    /\ SessOnly
    /\ pc[r] = "gate"
    /\ IF ~(phase = "active" /\ accepting) THEN Reply(r, "acceptance_done")
       ELSE IF ~inTime THEN Reply(r, "time_limit_exceeded")
       ELSE IF ReqTrack(r) \in UnavailableInMarket THEN Reply(r, "market_restriction")
       ELSE Goto(r, "pending") /\ UNCHANGED loc
    /\ UNCHANGED <<regVars, storeVars, mu, playCalls, ctxCancelled, doneClosed,
                   playlist, notifLog, endingAt, ctl>>

\* UserPendingFilter counting the request before it checks the listener.
RequestUserPendingCounting(r) ==
    /\ SessOnly
    /\ pc[r] = "pending"
    /\ listeners' = IncrementPending(listeners, ReqListener(r))
    /\ UNCHANGED joinLog
    /\ LET l == listeners[ReqListener(r)]
       IN  IF l.IsKicked THEN Reply(r, "kicked")
           ELSE IF ~l.VIPStatus /\ l.PendingTracks > 0 THEN Reply(r, "user_pending")
           ELSE Goto(r, "duplicate") /\ UNCHANGED loc
    /\ UNCHANGED <<storeVars, mu, playCalls, ctxCancelled, doneClosed,
                   playlist, notifLog, endingAt, ctl>>

\* KickedFilter: kicked.  UserPendingFilter: user_pending unless VIP.
RequestUserPending(r) ==
    /\ SessOnly
    /\ pc[r] = "pending"
    /\ LET l == listeners[ReqListener(r)]
       IN  IF l.IsKicked THEN Reply(r, "kicked")
           ELSE IF ~l.VIPStatus /\ l.PendingTracks > 0 THEN Reply(r, "user_pending")
           ELSE Goto(r, "duplicate") /\ UNCHANGED loc
    /\ UNCHANGED <<regVars, storeVars, mu, playCalls, ctxCancelled, doneClosed,
                   playlist, notifLog, endingAt, ctl>>

\* DuplicateTrackFilter over played + current + queued: duplicate_track.
\* DurationLimitFilter accepts.
RequestDuplicate(r) ==
    /\ SessOnly
    /\ pc[r] = "duplicate"
    /\ IF ReqTrack(r) \in GetAllTrackIDs(ctl) THEN Reply(r, "duplicate_track")
       ELSE Goto(r, "enqueue") /\ UNCHANGED loc
    /\ UNCHANGED <<regVars, storeVars, mu, playCalls, ctxCancelled, doneClosed,
                   playlist, notifLog, endingAt, ctl>>

\* m.playback.Enqueue(qt)
RequestEnqueue(r) ==
    /\ SessOnly
    /\ pc[r] = "enqueue"
    /\ ctl' = Enqueue(ctl, QueuedTrack(ReqTrack(r), ReqListener(r), "user"))
    /\ Goto(r, "recent")
    /\ UNCHANGED <<regVars, storeVars, mu, loc, playCalls, ctxCancelled, doneClosed,
                   playlist, notifLog, endingAt>>

\* addRecentArtists: takes and releases Manager.mu.
RequestAddRecentArtists(r) ==
    /\ SessOnly
    /\ pc[r] = "recent"
    /\ mu = "none"
    /\ Goto(r, "increment")
    /\ UNCHANGED <<regVars, storeVars, mu, loc, playCalls, ctxCancelled, doneClosed,
                   playlist, notifLog, endingAt, ctl>>

\* IncrementPendingTracks(listenerID)
RequestIncrementPending(r) ==
    /\ SessOnly
    /\ pc[r] = "increment"
    /\ listeners' = IncrementPending(listeners, ReqListener(r))
    /\ UNCHANGED joinLog
    /\ Goto(r, "addToPlaylist")
    /\ UNCHANGED <<storeVars, mu, loc, playCalls, ctxCancelled, doneClosed,
                   playlist, notifLog, endingAt, ctl>>

\* AddTracksToPlaylist
RequestAddToPlaylist(r) ==
    /\ SessOnly
    /\ pc[r] = "addToPlaylist"
    /\ playlist' = playlist \cup {ReqTrack(r)}
    /\ Goto(r, "playIfIdle")
    /\ UNCHANGED <<regVars, storeVars, mu, loc, playCalls, ctxCancelled, doneClosed,
                   notifLog, endingAt, ctl>>

\* GetState() == StateIdle: go Play(); return accepted.
RequestPlayIfIdle(r) ==
    /\ SessOnly
    /\ pc[r] = "playIfIdle"
    /\ playCalls' = IF ctl.state = "idle" THEN playCalls + 1 ELSE playCalls
    /\ Reply(r, "accepted")
    /\ UNCHANGED <<regVars, storeVars, mu, ctxCancelled, doneClosed,
                   playlist, notifLog, endingAt, ctl>>

\* The steps of the controller's timers and goroutines, of Start, of
\* fillQueueWithBGM, of the playback-event consumer and of the broadcasts.
PlaybackSteps ==
    \/ TrackTimerFires
    \/ \E t \in ctl.notifTimers : NotifTimerFires(t)
    \/ DepletionTimerFires
    \/ PlayGoroutine

NotifySteps ==
    \/ \E p \in Procs : BuildSessionInfo(p)
    \/ \E p \in Procs : BuildState(p)
    \/ \E p \in Procs : Broadcast(p)

\* Start, for the opening playlists, start times and catalog answers given.
StartSteps(openings, waits, oks) ==
    \/ \E o \in openings, w \in waits : StartBegin(o, w)
    \/ StartWaitOver
    \/ \E ok \in oks : StartCreatePlaylist(ok)
    \/ \E ok \in oks : StartEndingDuration(ok)
    \/ StartSetPhase
    \/ StartStartAccepting
    \/ StartUnlock
    \/ StartSpawn

\* Start, its loading of an opening playlist
OpeningSteps(oks) ==
    \/ \E ok \in oks : StartEnqueueOpening(ok)
    \/ \E ok \in oks : StartAddOpening(ok)

\* fillQueueWithBGM up to its candidates
FillFetchSteps(catalogue) ==
    \/ \E p \in FillCallers : FillGetCandidates(p, catalogue)

\* fillQueueWithBGM with a candidate
FillSteps ==
    \/ \E p \in FillCallers : FillCheckPhase(p)
    \/ \E p \in FillCallers : FillCheckAccepting(p)
    \/ \E p \in FillCallers : FillFilterByRecentArtists(p)
    \/ \E p \in FillCallers : FillCheckQueueEmpty(p)
    \/ \E p \in FillCallers : FillEnqueue(p)
    \/ \E p \in FillCallers : FillAddToPlaylist(p)
    \/ \E p \in FillCallers : FillAddRecentArtists(p)
    \/ \E p \in FillCallers : FillPlayIfIdle(p)

ConsumerSteps ==
    \/ ConsumerReceive
    \/ OnTrackStartedDecrement
    \/ OnQueueDepletingPhase
    \/ OnQueueDepletingAccepting
    \/ OnQueueEmptyPhase
    \/ OnQueueEmptyAccepting

\* terminateSession, called by the consumer in phase ending
TerminateSteps ==
    \/ ConsumerExit
    \/ TerminateSetPhase("consumer")
    \/ TerminateStopAccepting("consumer")
    \/ TerminatePlaybackStop("consumer")
    \/ TerminateClose("consumer")

\* The session by itself: any start, playback, BGM, the consumer.
CoreSteps ==
    \/ PlaybackSteps
    \/ NotifySteps
    \/ StartSteps(OpeningChoices, BOOLEAN, BOOLEAN)
    \/ OpeningSteps(BOOLEAN)
    \/ FillFetchSteps(BGMCatalogue)
    \/ FillSteps
    \/ ConsumerSteps

\* The session with an opening playlist, its catalog answering and its BGM
\* providers without a candidate.
OpeningOnlySteps ==
    \/ PlaybackSteps
    \/ NotifySteps
    \/ StartSteps({<<"o1">>}, BOOLEAN, {TRUE})
    \/ OpeningSteps({TRUE})
    \/ FillFetchSteps({})
    \/ ConsumerSteps

\* The session without an opening playlist, its catalog answering and its
\* BGM providers without a candidate.
PlainSteps ==
    \/ PlaybackSteps
    \/ NotifySteps
    \/ StartSteps({<<>>}, BOOLEAN, {TRUE})
    \/ FillFetchSteps({})
    \/ ConsumerSteps

\* Admin StopSession
StopSteps ==
    \/ StopBegin("stop")
    \/ StopWaitingCancel("stop")

\* transitionToEnding called by p
ToEndingSteps(p) ==
    \/ ToEndingStopAccepting(p)
    \/ ToEndingSetPhase(p)
    \/ \E ok \in BOOLEAN : ToEndingClearQueue(p, ok)
    \/ ToEndingRemoveFromPlaylist(p)
    \/ ToEndingEnqueue(p)
    \/ ToEndingAddToPlaylist(p)

\* StopImmediate on the shutdown signal
StopImmediateSteps ==
    \/ ConsumerExit
    \/ StopBegin("stopImmediate")
    \/ StopWaitingCancel("stopImmediate")
    \/ TerminateStopAccepting("stopImmediate")
    \/ TerminatePlaybackStop("stopImmediate")
    \/ TerminateClose("stopImmediate")

CheckerSteps ==
    \/ CheckerDeadline
    \/ CheckerExit

\* The administrator's calls, and that no call other than p is under way.
Admins == {"pause", "resume", "skip", "stop"}
OthersIdle(p) == \A q \in Admins \ {p} : pc[q] \in {"begin", "done"}

\* One administrator calling Pause, Resume and Skip one after the other, in
\* any order.
PlaybackAdminSteps ==
    \/ OthersIdle("pause") /\ PauseCheckPhase
    \/ PauseCall
    \/ OthersIdle("resume") /\ ResumeCheckState
    \/ ResumeCall
    \/ OthersIdle("skip") /\ SkipCall

\* The administrator calling StopSession as well.
AdminSteps ==
    \/ PlaybackAdminSteps
    \/ OthersIdle("stop") /\ StopBegin("stop")
    \/ StopWaitingCancel("stop")

\* The RequestTrack calls rs
RequestSteps(rs) ==
    \/ \E r \in rs, found \in BOOLEAN : RequestLookup(r, found)
    \/ \E r \in rs, inTime \in BOOLEAN : RequestAcceptanceGate(r, inTime)
    \/ \E r \in rs : RequestUserPending(r)
    \/ \E r \in rs : RequestDuplicate(r)
    \/ \E r \in rs : RequestEnqueue(r)
    \/ \E r \in rs : RequestAddRecentArtists(r)
    \/ \E r \in rs : RequestIncrementPending(r)
    \/ \E r \in rs : RequestAddToPlaylist(r)
    \/ \E r \in rs : RequestPlayIfIdle(r)

\* Listeners: Join and the RequestTrack calls rs
ListenerSteps(rs) ==
    \/ \E id \in SessionListenerIDs : ManagerJoin(id)
    \/ RequestSteps(rs)

\* The session and the shutdown signal.
ShutdownNext ==
    \/ CoreSteps
    \/ StopImmediateSteps

\* The session and the admin's StopSession.
StopNext ==
    \/ CoreSteps
    \/ StopSteps
    \/ ToEndingSteps("stop")
    \/ TerminateSteps

\* The session with an opening playlist, the deadline checker and the
\* shutdown signal.
DeadlineNext ==
    \/ OpeningOnlySteps
    \/ CheckerSteps
    \/ ToEndingSteps("checker")
    \/ TerminateSteps
    \/ StopImmediateSteps

\* The session with an opening playlist, the admin's StopSession and the
\* shutdown signal.
StopShutdownNext ==
    \/ OpeningOnlySteps
    \/ StopSteps
    \/ ToEndingSteps("stop")
    \/ TerminateSteps
    \/ StopImmediateSteps

\* The plain session and a listener's concurrent requests.
RequestNext ==
    \/ PlainSteps
    \/ ListenerSteps(Requests)

\* The plain session and two listeners' concurrent requests for one track.
SameTrackNext ==
    \/ PlainSteps
    \/ \E id \in ListenerIDs : ManagerJoin(id)
    \/ RequestSteps(SameTrackRequests)

\* The plain session, one request of a listener and the admin's StopSession.
EndingNext ==
    \/ PlainSteps
    \/ ListenerSteps({"r1"})
    \/ StopSteps
    \/ ToEndingSteps("stop")
    \/ TerminateSteps

\* The session with an opening playlist and the admin's StopSession.
GracefulNext ==
    \/ OpeningOnlySteps
    \/ StopSteps
    \/ ToEndingSteps("stop")
    \/ TerminateSteps

\* The session with an opening playlist and its administrator.
AdminNext ==
    \/ OpeningOnlySteps
    \/ AdminSteps
    \/ ToEndingSteps("stop")
    \/ TerminateSteps

\* The session with an opening playlist, one request of a listener, and an
\* administrator who either skips or pauses and resumes.
RequestAdminNext ==
    \/ OpeningOnlySteps
    \/ ListenerSteps({"r1"})
    \/ pc["skip"] = "begin" /\ OthersIdle("pause") /\ PauseCheckPhase
    \/ PauseCall
    \/ pc["skip"] = "begin" /\ OthersIdle("resume") /\ ResumeCheckState
    \/ ResumeCall
    \/ pc["pause"] = "begin" /\ pc["resume"] = "begin" /\ SkipCall

\* The session with an opening playlist of two tracks and an administrator
\* who pauses, resumes and skips, the track-end timer's expiry and its
\* callback being two steps.
TimersNext ==
    \/ \E t \in ctl.notifTimers : NotifTimerFires(t)
    \/ DepletionTimerFires
    \/ PlayGoroutine
    \/ TrackTimerExpires
    \/ \E id \in ctl.ending : onTrackEnd(id)
    \/ NotifySteps
    \/ StartSteps({<<"o1", "o2">>}, BOOLEAN, {TRUE})
    \/ OpeningSteps({TRUE})
    \/ FillFetchSteps({})
    \/ ConsumerSteps
    \/ PlaybackAdminSteps

\* Every goroutine that can run does run, every armed timer fires, and a
\* call under way returns.
RequestAdminFairness ==
    /\ WF_vars(TrackTimerFires)
    /\ WF_vars(\E t \in ctl.notifTimers : NotifTimerFires(t))
    /\ WF_vars(DepletionTimerFires)
    /\ WF_vars(PlayGoroutine)
    /\ WF_vars(NotifySteps)
    /\ WF_vars(StartSteps({<<"o1">>}, BOOLEAN, {TRUE}) \/ OpeningSteps({TRUE}))
    /\ WF_vars(FillFetchSteps({}) \/ ConsumerSteps)
    /\ WF_vars(ListenerSteps({"r1"}))
    /\ WF_vars(PauseCall \/ ResumeCall)

\* Every goroutine that can run does run, and every armed timer fires.
GracefulFairness ==
    /\ WF_vars(TrackTimerFires)
    /\ WF_vars(\E t \in ctl.notifTimers : NotifTimerFires(t))
    /\ WF_vars(DepletionTimerFires)
    /\ WF_vars(PlayGoroutine)
    /\ WF_vars(NotifySteps)
    /\ WF_vars(StartSteps({<<"o1">>}, BOOLEAN, {TRUE}) \/ OpeningSteps({TRUE}))
    /\ WF_vars(FillFetchSteps({}) \/ ConsumerSteps \/ TerminateSteps)
    /\ WF_vars(StopSteps \/ ToEndingSteps("stop"))

(***************************************************************************)
(* Specifications                                                          *)
(***************************************************************************)
\* No filter is called outside the session's own requests.
NoCall == [fn |-> "none"]

\* time.Time{} (IsZero), a nil *time.Time, a nil cancel function; the
\* controller with a clock where no clock is modelled.
ZeroTime == -1
NoClock == [now |-> ZeroTime]

Init == HubInit /\ RegInit /\ SessInit /\ flt = NoCall /\ timed = NoClock

(***************************************************************************)
(* filter: Result, AcceptanceDoneFilter                                    *)
(***************************************************************************)
\* filter.Accept, filter.Reject
Accept == [Accepted |-> TRUE, Code |-> ""]
Reject(code) == [Accepted |-> FALSE, Code |-> code]

\* Bounds of the instants and of the durations given to the filters.
MaxTime == 3
MaxDur == 2

\* A *time.Time: <<>> is nil.
TimePtrs == {<<>>} \cup {<<t>> : t \in 0..MaxTime}

\* AcceptanceDoneFilter.Check accepting a projected start at the deadline.
AcceptanceDoneCheckLate(in) ==
    IF ~in.isAccepting THEN Reject("acceptance_done")
    ELSE IF in.endTime # <<>>
       THEN LET deadline == in.endTime[1] - in.endingDur
                playbackStartTime == in.now + in.currentRemain + in.queueDuration
            IN  IF in.now > deadline THEN Reject("time_limit_exceeded")
                ELSE IF playbackStartTime > deadline
                   THEN Reject("time_limit_exceeded")
                ELSE Accept
    ELSE Accept

\* AcceptanceDoneFilter.Check; in holds what the filter's closures return and
\* the duration of the requested track, which Check receives and never reads.
AcceptanceDoneCheck(in) ==
    IF ~in.isAccepting THEN Reject("acceptance_done")
    ELSE IF in.endTime # <<>>
       THEN LET deadline == in.endTime[1] - in.endingDur
                playbackStartTime == in.now + in.currentRemain + in.queueDuration
            IN  IF in.now > deadline THEN Reject("time_limit_exceeded")
                ELSE IF playbackStartTime > deadline \/ playbackStartTime = deadline
                   THEN Reject("time_limit_exceeded")
                ELSE Accept
    ELSE Accept

\* What a call of AcceptanceDoneFilter.Check can be given.
GateInputs ==
    [isAccepting : BOOLEAN, endTime : TimePtrs, endingDur : 0..MaxDur,
     now : 0..MaxTime, currentRemain : 0..MaxDur, queueDuration : 0..MaxDur,
     trackDuration : 1..MaxDur]

GateInit ==
    /\ HubInit /\ RegInit /\ SessInit /\ timed = NoClock
    /\ flt \in {[fn |-> "AcceptanceDoneFilter", in |-> i, out |-> <<>>] : i \in GateInputs}

\* The call returns.
GateCheck ==
    /\ flt.fn = "AcceptanceDoneFilter"
    /\ flt.out = <<>>
    /\ flt' = [flt EXCEPT !.out = <<AcceptanceDoneCheck(flt.in)>>]
    /\ UNCHANGED <<hubVars, regVars, sessVars, clockVars>>

GateNext == GateCheck


(***************************************************************************)
(* filter: DuplicateTrackFilter                                            *)
(***************************************************************************)
\* A string is a sequence of characters.
UpperCase == <<"A", "B", "C", "D", "E", "F", "G", "H", "I", "J", "K", "L", "M", "N", "O", "P", "Q", "R", "S", "T", "U", "V", "W", "X", "Y", "Z">>
LowerCase == <<"a", "b", "c", "d", "e", "f", "g", "h", "i", "j", "k", "l", "m", "n", "o", "p", "q", "r", "s", "t", "u", "v", "w", "x", "y", "z">>

\* strings.ToLower on the letters of the alphabet
ToLower(s) ==
    [i \in 1..Len(s) |->
        IF \E j \in 1..Len(UpperCase) : UpperCase[j] = s[i]
           THEN LowerCase[CHOOSE j \in 1..Len(UpperCase) : UpperCase[j] = s[i]]
           ELSE s[i]]

\* strings.EqualFold on the letters of the alphabet
EqualFold(a, b) == ToLower(a) = ToLower(b)

\* regexp: the elements of a pattern.  Opt(n) makes the next n elements
\* optional, LazyAny is .*? and Star(S) is S* (greedy).
Whitespace == {" "}
Digit == {"0", "1", "2", "3", "9"}
Class(S) == [k |-> "set", set |-> S]
Star(S) == [k |-> "star", set |-> S]
Opt(n) == [k |-> "opt", n |-> n]
LazyAny == [k |-> "lazy"]
Str(s) == [i \in 1..Len(s) |-> Class({s[i]})]

\* The position after the match regexp prefers for the elements k.. of pat
\* at position i of s, 0 when there is none.
RECURSIVE MatchEnd(_, _, _, _)
MatchEnd(pat, k, s, i) ==
    IF k > Len(pat) THEN i
    ELSE LET e == pat[k]
         IN  CASE e.k = "set" ->
                    IF i <= Len(s) /\ s[i] \in e.set
                       THEN MatchEnd(pat, k + 1, s, i + 1) ELSE 0
               [] e.k = "star" ->
                    LET more == IF i <= Len(s) /\ s[i] \in e.set
                                   THEN MatchEnd(pat, k, s, i + 1) ELSE 0
                    IN  IF more # 0 THEN more ELSE MatchEnd(pat, k + 1, s, i)
               [] e.k = "opt" ->
                    LET taken == MatchEnd(pat, k + 1, s, i)
                    IN  IF taken # 0 THEN taken ELSE MatchEnd(pat, k + 1 + e.n, s, i)
               [] e.k = "lazy" ->
                    LET none == MatchEnd(pat, k + 1, s, i)
                    IN  IF none # 0 THEN none
                        ELSE IF i <= Len(s) THEN MatchEnd(pat, k, s, i + 1) ELSE 0

\* Regexp.ReplaceAllString(s, "") from position i on
RECURSIVE ReplaceAllString(_, _, _)
ReplaceAllString(pat, s, i) ==
    IF i > Len(s) THEN <<>>
    ELSE LET m == MatchEnd(pat, 1, s, i)
         IN  IF m > i THEN ReplaceAllString(pat, s, m)
             ELSE <<s[i]>> \o ReplaceAllString(pat, s, i + 1)

\* \s*-?\s*
Dash == <<Star(Whitespace), Opt(1), Class({"-"}), Star(Whitespace)>>
\* \s+
Spaces == <<Class(Whitespace), Star(Whitespace)>>
\* remaster(ed)?
Remaster == Str(<<"r", "e", "m", "a", "s", "t", "e", "r">>) \o <<Opt(2), Class({"e"}), Class({"d"})>>
\* \d{0,4}
UpTo4Digits == <<Opt(7), Class(Digit), Opt(5), Class(Digit), Opt(3), Class(Digit),
                 Opt(1), Class(Digit)>>
Version == Str(<<"v", "e", "r", "s", "i", "o", "n">>)
Edit == Str(<<"e", "d", "i", "t">>)
Live == Str(<<"l", "i", "v", "e">>)

\* normalizeTrackName: remasterPatterns, in order
remasterPatterns ==
    << Dash \o <<Class(Digit), Class(Digit), Class(Digit), Class(Digit)>> \o Spaces \o Remaster,
       <<Star(Whitespace), Class({"("})>> \o Remaster \o <<Star(Whitespace)>>
           \o UpTo4Digits \o <<Class({")"})>>,
       <<Star(Whitespace), Class({"["})>> \o Remaster \o <<Star(Whitespace)>>
           \o UpTo4Digits \o <<Class({"]"})>>,
       Dash \o Remaster \o <<Opt(Len(Spaces) + Len(Version))>> \o Spaces \o Version,
       <<Star(Whitespace), Class({"("}), LazyAny>> \o Str(<<"r", "e", "m", "a", "s", "t", "e", "r">>)
           \o <<LazyAny, Class({")"})>>,
       <<Star(Whitespace), Class({"["}), LazyAny>> \o Str(<<"r", "e", "m", "a", "s", "t", "e", "r">>)
           \o <<LazyAny, Class({"]"})>> >>

\* normalizeTrackName: versionPatterns, in order
versionPatterns ==
    << <<Star(Whitespace), Class({"("}), LazyAny>> \o Version \o <<Class({")"})>>,
       <<Star(Whitespace), Class({"("}), LazyAny>> \o Edit \o <<Class({")"})>>,
       Dash \o Live,
       <<Star(Whitespace), Class({"("})>> \o Live \o <<Class({")"})>>,
       Dash \o Str(<<"r", "a", "d", "i", "o">>) \o Spaces \o Edit,
       Dash \o Str(<<"s", "i", "n", "g", "l", "e">>) \o Spaces \o Version >>

\* for _, pattern := range patterns { s = pattern.ReplaceAllString(s, "") }
RECURSIVE RemoveAll(_, _, _)
RemoveAll(patterns, k, s) ==
    IF k > Len(patterns) THEN s
    ELSE RemoveAll(patterns, k + 1, ReplaceAllString(patterns[k], s, 1))

\* strings.TrimRight(s, cutset)
RECURSIVE TrimRight(_, _)
TrimRight(s, cutset) ==
    IF s # <<>> /\ s[Len(s)] \in cutset THEN TrimRight(SubSeq(s, 1, Len(s) - 1), cutset)
    ELSE s

\* strings.TrimSpace
RECURSIVE TrimSpace(_)
TrimSpace(s) ==
    IF s # <<>> /\ s[1] \in Whitespace THEN TrimSpace(Tail(s))
    ELSE TrimRight(s, Whitespace)

\* regexp \s+ replaced by one space
RECURSIVE CollapseSpaces(_)
CollapseSpaces(s) ==
    IF s = <<>> THEN <<>>
    ELSE IF s[1] \in Whitespace
       THEN IF Len(s) > 1 /\ s[2] \in Whitespace THEN CollapseSpaces(Tail(s))
            ELSE <<" ">> \o CollapseSpaces(Tail(s))
    ELSE <<s[1]>> \o CollapseSpaces(Tail(s))

\* normalizeTrackName
normalizeTrackName(name) ==
    LET lowered == ToLower(name)
        stripped == RemoveAll(versionPatterns, 1, RemoveAll(remasterPatterns, 1, lowered))
    IN  TrimRight(CollapseSpaces(TrimSpace(stripped)), {" ", "-"})

\* isSameArtist
isSameArtist(track1, track2) ==
    IF Len(track1.Artists) = 0 \/ Len(track2.Artists) = 0 THEN FALSE
    ELSE EqualFold(track1.Artists[1], track2.Artists[1])

\* isRemaster taking a cover for the same song.
isRemasterAnyArtist(track1, track2) ==
    normalizeTrackName(track1.Name) = normalizeTrackName(track2.Name)

\* DuplicateTrackFilter.isRemaster
isRemaster(track1, track2) ==
    IF normalizeTrackName(track1.Name) # normalizeTrackName(track2.Name) THEN FALSE
    ELSE isSameArtist(track1, track2)

\* DuplicateTrackFilter.Check over the result of GetAllTracks
RECURSIVE DuplicateTrackCheck(_, _)
DuplicateTrackCheck(queuedTracks, requestedTrack) ==
    IF queuedTracks = <<>> THEN Accept
    ELSE IF Head(queuedTracks).ID = requestedTrack.ID THEN Reject("duplicate_track")
    ELSE IF isRemaster(Head(queuedTracks), requestedTrack) THEN Reject("duplicate_track")
    ELSE DuplicateTrackCheck(Tail(queuedTracks), requestedTrack)

\* The names and the artists of the tracks examined.
TrackNames ==
    { <<"Y", "o">>,
      <<"Y", "o", " ", "(", "R", "e", "m", "a", "s", "t", "e", "r", "e", "d", " ", "2", "0", "2", "3", ")">>,
      <<"Y", "O", " ", "-", " ", "2", "0", "1", "1", " ", "R", "e", "m", "a", "s", "t", "e", "r">>,
      <<"Y", "o", " ", "(", "D", "u", "b", " ", "R", "e", "m", "i", "x", ")">> }
TrackArtists ==
    { <<>>,
      <<<<"Q", "u", "e", "e", "n">>>>,
      <<<<"q", "u", "e", "e", "n">>, <<"B", "o", "w", "i", "e">>>>,
      <<<<"W", "i", "n", "g", "s">>>> }
FilterTracks == [ID : {"a", "b"}, Name : TrackNames, Artists : TrackArtists]

\* Bound of played + current + queued.
MaxHistory == 2

\* Controller.GetAllTracks: played, then the current track, then the queue.
GetAllTracks(played, current, queue) == played \o current \o queue

Histories ==
    {GetAllTracks(h[1], h[2], h[3]) :
        h \in {x \in [1..3 -> {<<>>} \cup {<<t>> : t \in FilterTracks}] :
                 Len(x[1]) + Len(x[2]) + Len(x[3]) <= MaxHistory}}

DuplicateInit ==
    /\ HubInit /\ RegInit /\ SessInit /\ timed = NoClock
    /\ flt \in {[fn |-> "DuplicateTrackFilter", in |-> [queuedTracks |-> h, track |-> t],
                 out |-> <<>>] : h \in Histories, t \in FilterTracks}

\* The call returns.
DuplicateCheck ==
    /\ flt.fn = "DuplicateTrackFilter"
    /\ flt.out = <<>>
    /\ flt' = [flt EXCEPT !.out = <<DuplicateTrackCheck(flt.in.queuedTracks, flt.in.track)>>]
    /\ UNCHANGED <<hubVars, regVars, sessVars, clockVars>>

DuplicateNext == DuplicateCheck

(***************************************************************************)
(* filter: MarketFilter, KickedFilter, UserPendingFilter,                  *)
(* DurationLimitFilter, Chain                                              *)
(***************************************************************************)
\* track.RequesterType
RequesterTypes == {"USER", "SYSTEM", "OPENING", "ENDING", "BGM"}

\* Track.IsAvailableInMarket; IsPlayable is a *bool, <<>> is nil.
IsAvailableInMarket(t, market) ==
    IF t.IsPlayable # <<>> THEN t.IsPlayable[1]
    ELSE market \in t.Markets

\* MarketFilter.Check
MarketCheck(market, t) ==
    IF market = "" THEN Accept
    ELSE IF ~IsAvailableInMarket(t, market) THEN Reject("market_restriction")
    ELSE Accept

\* KickedFilter.Check
KickedCheck(l) == IF l.IsKicked THEN Reject("kicked") ELSE Accept

\* UserPendingFilter.Check
UserPendingCheck(l) ==
    IF l.VIPStatus THEN Accept
    ELSE IF l.PendingTracks > 0 THEN Reject("user_pending")
    ELSE Accept

\* DurationLimitFilter.Check; config is <<>> when not set, t.Minutes is
\* t.Duration.Minutes().
DurationLimitCheck(config, t) ==
    IF config = <<>> THEN Accept
    ELSE IF t.Minutes < config[1].MinMinutes THEN Reject("duration_limit_exceeded")
    ELSE IF config[1].MaxMinutes > 0 /\ t.Minutes > config[1].MaxMinutes
       THEN Reject("duration_limit_exceeded")
    ELSE Accept

\* The filters setupFilters adds only when the configuration enables them.
OptionalFilters ==
    {"kicked_listener_filter", "user_pending_filter", "duplicate_track_filter",
     "duration_limit_filter"}

\* Manager.setupFilters: Chain.Add in this order.
setupFilters(enabled) ==
    LET If(f) == IF f \in enabled THEN <<f>> ELSE <<>>
    IN  <<"acceptance_done_filter", "market_filter">>
           \o If("kicked_listener_filter") \o If("user_pending_filter")
           \o If("duplicate_track_filter") \o If("duration_limit_filter")

\* Filter.AppliesTo of each filter
AppliesTo(f, requesterType) ==
    IF f = "market_filter" THEN TRUE ELSE requesterType = "USER"

\* Filter.Check of each filter on the arguments of Execute and on what the
\* filter was constructed with.
Check(f, in) ==
    CASE f = "acceptance_done_filter" -> AcceptanceDoneCheck(in.gate)
      [] f = "market_filter" -> MarketCheck(in.market, in.t)
      [] f = "kicked_listener_filter" -> KickedCheck(in.l)
      [] f = "user_pending_filter" -> UserPendingCheck(in.l)
      [] f = "duplicate_track_filter" -> DuplicateTrackCheck(in.queuedTracks, in.t)
      [] f = "duration_limit_filter" -> DurationLimitCheck(in.config, in.t)

\* The track of the request and the entry of the history with its id.
ChainTracks ==
    [ID : {"a"}, Name : {<<"Y", "o">>}, Artists : {<<<<"Q", "u", "e", "e", "n">>>>},
     Minutes : {0, 1, 3}, Markets : {{}, {"JP"}}, IsPlayable : {<<>>, <<FALSE>>}]

ChainInputs ==
    [enabled : {{}, OptionalFilters},
     requesterType : RequesterTypes,
     gate : [isAccepting : BOOLEAN, endTime : {<<>>, <<MaxTime>>}, endingDur : {0},
             now : {0}, currentRemain : {0}, queueDuration : {0, MaxTime}],
     market : {"", "JP"},
     t : ChainTracks,
     l : [IsKicked : BOOLEAN, VIPStatus : BOOLEAN, PendingTracks : 0..1],
     sameInHistory : BOOLEAN,
     config : {<<[MinMinutes |-> 1, MaxMinutes |-> m]>> : m \in {0, 2}}]

ChainInit ==
    /\ HubInit /\ RegInit /\ SessInit /\ timed = NoClock
    /\ flt \in {[fn |-> "Chain",
                 filters |-> setupFilters(i.enabled),
                 requesterType |-> i.requesterType,
                 in |-> [gate |-> i.gate, market |-> i.market, t |-> i.t, l |-> i.l,
                         queuedTracks |-> IF i.sameInHistory THEN <<i.t>> ELSE <<>>,
                         config |-> i.config],
                 idx |-> 1, evaluated |-> <<>>, out |-> <<>>] : i \in ChainInputs}

ExecuteRunning == flt.fn = "Chain" /\ flt.out = <<>>

\* Execute: !f.AppliesTo(requesterType): continue
ExecuteSkip ==
    /\ ExecuteRunning
    /\ flt.idx <= Len(flt.filters)
    /\ ~AppliesTo(flt.filters[flt.idx], flt.requesterType)
    /\ flt' = [flt EXCEPT !.idx = @ + 1]
    /\ UNCHANGED <<hubVars, regVars, sessVars, clockVars>>

\* Execute checking every filter and accepting at the end.
ExecuteCheckAll ==
    /\ ExecuteRunning
    /\ flt.idx <= Len(flt.filters)
    /\ AppliesTo(flt.filters[flt.idx], flt.requesterType)
    /\ flt' = [flt EXCEPT !.evaluated = Append(@, flt.filters[flt.idx]), !.idx = @ + 1]
    /\ UNCHANGED <<hubVars, regVars, sessVars, clockVars>>

\* Execute: result := f.Check(...); !result.Accepted: return result
ExecuteCheck ==
    /\ ExecuteRunning
    /\ flt.idx <= Len(flt.filters)
    /\ AppliesTo(flt.filters[flt.idx], flt.requesterType)
    /\ LET result == Check(flt.filters[flt.idx], flt.in)
       IN  flt' = [flt EXCEPT !.evaluated = Append(@, flt.filters[flt.idx]),
                              !.idx = @ + 1,
                              !.out = IF ~result.Accepted THEN <<result>> ELSE <<>>]
    /\ UNCHANGED <<hubVars, regVars, sessVars, clockVars>>

\* Execute: return Accept()
ExecuteReturn ==
    /\ ExecuteRunning
    /\ flt.idx > Len(flt.filters)
    /\ flt' = [flt EXCEPT !.out = <<Accept>>]
    /\ UNCHANGED <<hubVars, regVars, sessVars, clockVars>>

ChainNext == ExecuteSkip \/ ExecuteCheck \/ ExecuteReturn

SpecHub == Init /\ [][HubNext]_vars

SpecRegistry == Init /\ [][RegNext]_vars

SpecShutdown == Init /\ [][ShutdownNext]_vars

SpecStop == Init /\ [][StopNext]_vars

SpecDeadline == Init /\ [][DeadlineNext]_vars

SpecStopShutdown == Init /\ [][StopShutdownNext]_vars

SpecRequest == Init /\ [][RequestNext]_vars

SpecSameTrack == Init /\ [][SameTrackNext]_vars

SpecEnding == Init /\ [][EndingNext]_vars

SpecAdmin == Init /\ [][AdminNext]_vars

SpecRequestAdmin == Init /\ [][RequestAdminNext]_vars /\ RequestAdminFairness

SpecGraceful == Init /\ [][GracefulNext]_vars /\ GracefulFairness

SpecTimers == Init /\ [][TimersNext]_vars

SpecGate == GateInit /\ [][GateNext]_vars

SpecDuplicate == DuplicateInit /\ [][DuplicateNext]_vars

SpecChain == ChainInit /\ [][ChainNext]_vars

(***************************************************************************)
(* Manager.filterByRecentArtists, addRecentArtists                         *)
(***************************************************************************)
\* bgm.recent_artist_count of the configuration, the artists, the BGM
\* candidates (track id and Track.Artists) and the length of a candidate list.
RecentArtistCounts == {0, 1, 2}
Artists == {"x", "y"}
Candidates ==
    {[id |-> "k1", artists |-> <<"x">>], [id |-> "k2", artists |-> <<"y">>],
     [id |-> "k3", artists |-> <<"x", "y">>]}
MaxCandidates == 2

\* GetCandidates returns at least one candidate to the caller of the filter.
CandidateLists == UNION {[1..n -> Candidates] : n \in 1..MaxCandidates}

\* isRecentArtistLocked looking at the first artist only.
isRecentArtistLockedFirstOnly(recentArtists, artists) ==
    /\ artists # <<>>
    /\ \E j \in 1..Len(recentArtists) : artists[1] = recentArtists[j]

\* isRecentArtistLocked: some artist of the track equals some recent artist.
isRecentArtistLocked(recentArtists, artists) ==
    \E i \in 1..Len(artists) : \E j \in 1..Len(recentArtists) :
        artists[i] = recentArtists[j]

\* addRecentArtistsLocked: each artist is put in front and the window is cut
\* to maxRecentArtists.
RECURSIVE addRecentArtistsLocked(_, _, _)
addRecentArtistsLocked(max, recentArtists, artists) ==
    IF artists = <<>> THEN recentArtists
    ELSE LET added == <<Head(artists)>> \o recentArtists
             cut == IF Len(added) > max THEN SubSeq(added, 1, max) ELSE added
         IN  addRecentArtistsLocked(max, cut, Tail(artists))

\* The loop of filterByRecentArtists over the candidates.
RECURSIVE notRecent(_, _)
notRecent(recentArtists, candidates) ==
    IF candidates = <<>> THEN <<>>
    ELSE LET c == Head(candidates)
             rest == notRecent(recentArtists, Tail(candidates))
         IN  IF ~isRecentArtistLocked(recentArtists, c.artists) THEN <<c>> \o rest
                                                               ELSE rest

\* filterByRecentArtists: what it returns and the window it leaves.
filterByRecentArtists(max, recentArtists, candidates) ==
    IF max = 0
       THEN [out |-> candidates, recentArtists |-> recentArtists]
       ELSE LET filtered == notRecent(recentArtists, candidates)
            IN  IF Len(filtered) = 0 /\ Len(recentArtists) > 0
                   THEN [out |-> candidates, recentArtists |-> <<>>]
                   ELSE [out |-> filtered, recentArtists |-> recentArtists]

\* NewManager: no recent artists.  in, before and out are history: the
\* candidates of the call, the window at the call and what was returned
\* (<<>> before the call).
RecentInit ==
    /\ HubInit /\ RegInit /\ SessInit /\ timed = NoClock
    /\ flt \in {[fn |-> "filterByRecentArtists", maxRecentArtists |-> n,
                 recentArtists |-> <<>>, in |-> <<>>, before |-> <<>>, out |-> <<>>] :
                    n \in RecentArtistCounts}

\* addRecentArtists(t.Artists) of an enqueued track
RecentAdd(artists) ==
    /\ flt.fn = "filterByRecentArtists"
    /\ flt.out = <<>>
    /\ flt' = [flt EXCEPT !.recentArtists =
                             addRecentArtistsLocked(flt.maxRecentArtists, @, artists)]
    /\ UNCHANGED <<hubVars, regVars, sessVars, clockVars>>

\* filterByRecentArtists(candidates)
RecentFilter(candidates) ==
    /\ flt.fn = "filterByRecentArtists"
    /\ flt.out = <<>>
    /\ LET r == filterByRecentArtists(flt.maxRecentArtists, flt.recentArtists, candidates)
       IN  flt' = [flt EXCEPT !.in = candidates, !.before = flt.recentArtists,
                              !.out = <<r.out>>, !.recentArtists = r.recentArtists]
    /\ UNCHANGED <<hubVars, regVars, sessVars, clockVars>>

RecentNext ==
    \/ \E c \in Candidates : RecentAdd(c.artists)
    \/ \E cs \in CandidateLists : RecentFilter(cs)

SpecRecent == RecentInit /\ [][RecentNext]_vars

(***************************************************************************)
(* Playback Controller with its virtual clock                              *)
(***************************************************************************)
\* Wall-clock times and durations are whole numbers of the ticker period of
\* startWallClockTimer.
TickPeriod == 1
\* The clock stops here.
MaxClock == 8
\* Config.DepletionThresholdSec
DepletionThreshold == 3
\* Config.GapCorrection, Config.NotificationDelay
GapCorrections == {0, 1}
NotificationDelays == {0, 2}
\* The tracks of the clock model and Track.Duration of each.
ClockTrackIDs == {"a", "b", "c"}
Duration(id) == CASE id = "a" -> 3 [] id = "b" -> 1 [] OTHER -> 4

\* A nil cancel function of a notification-delay timer
NoTimer == [id |-> "", strict |-> FALSE, end |-> ZeroTime]

\* NewController with its configuration, at time 0.  timer, depletionTimer:
\* the end time of the live timer in the slot, ZeroTime for none;
\* notifTimers: the live notification-delay timers, notifSlot the one
\* notificationDelayTimerCancel refers to.  History: sent, the events the
\* last step sent; startedAt, when playNextLocked made the current track
\* current; undisturbed, it was not paused since; notified, the TrackStarted
\* events sent for it; unpaused, the time it has spent in state playing;
\* depletions, the QueueDepleting events since the last Enqueue;
\* remainingAtPause, the remaining duration right before the last Pause.
NewClockController(gap, delay) ==
    [now |-> 0, GapCorrection |-> gap, NotificationDelay |-> delay,
     queue |-> <<>>, played |-> <<>>, currentTrack |-> "", state |-> "idle",
     startTime |-> ZeroTime, notificationTime |-> ZeroTime,
     pausedAt |-> ZeroTime, pausedElapsed |-> 0, depletionNotified |-> FALSE,
     timer |-> ZeroTime, depletionTimer |-> ZeroTime,
     notifTimers |-> {}, notifSlot |-> NoTimer,
     sent |-> <<>>, startedAt |-> 0, undisturbed |-> FALSE, notified |-> 0,
     unpaused |-> 0, depletions |-> 0, remainingAtPause |-> 0, enqueued |-> {}]

\* sendEventLocked, the consumer keeping the channel from filling up.
SendAt(c, type) ==
    [c EXCEPT !.sent = Append(@, [type |-> type, track |-> c.currentTrack]),
              !.notified = IF type = "TrackStarted" THEN @ + 1 ELSE @,
              !.depletions = IF type = "QueueDepleting" THEN @ + 1 ELSE @]

\* getRemainingDurationLocked
getRemainingDurationLocked(c) ==
    IF c.currentTrack = "" THEN 0
    ELSE IF c.now < c.startTime THEN Duration(c.currentTrack)
    ELSE LET sincePause == IF c.state = "paused" /\ c.pausedAt # ZeroTime
                              THEN c.now - c.pausedAt ELSE 0
             elapsed == (c.now - c.startTime) - c.pausedElapsed - sincePause
             remaining == Duration(c.currentTrack) - elapsed
         IN  IF remaining < 0 THEN 0 ELSE remaining

\* The durations of the queued tracks, summed.
RECURSIVE QueuedDuration(_)
QueuedDuration(q) == IF q = <<>> THEN 0 ELSE Duration(Head(q)) + QueuedDuration(Tail(q))

\* checkDepletionLocked: totalRemaining
totalRemaining(c) == getRemainingDurationLocked(c) + QueuedDuration(c.queue)

\* checkDepletionLocked
checkDepletionLockedAt(c) ==
    IF c.depletionNotified THEN c
    ELSE LET c1 == [c EXCEPT !.depletionTimer = ZeroTime]
             total == totalRemaining(c1)
         IN  IF total < DepletionThreshold /\ total > 0
                THEN SendAt([c1 EXCEPT !.depletionNotified = TRUE], "QueueDepleting")
             ELSE IF total > DepletionThreshold /\ c1.state = "playing"
                THEN [c1 EXCEPT !.depletionTimer = c1.now + (total - DepletionThreshold)]
             ELSE c1

\* startTrackTimer: startWallClockTimer computes the end time when it starts.
startTrackTimerAt(c, duration) == [c EXCEPT !.timer = c.now + duration]

\* playNextLocked
playNextLockedAt(c) ==
    IF c.queue = <<>>
       THEN SendAt([c EXCEPT !.state = "idle"], "QueueEmpty")
       ELSE LET qt == Head(c.queue)
                c1 == [c EXCEPT !.queue = Tail(@),
                                !.played = IF c.currentTrack # "" THEN Append(@, c.currentTrack)
                                                                  ELSE @,
                                !.currentTrack = qt,
                                !.pausedAt = ZeroTime,
                                !.pausedElapsed = 0,
                                !.state = "playing",
                                !.startTime = c.now + c.GapCorrection,
                                !.startedAt = c.now,
                                !.undisturbed = TRUE,
                                !.notified = 0,
                                !.unpaused = 0]
                c2 == checkDepletionLockedAt(
                         startTrackTimerAt(c1, Duration(qt) + c.GapCorrection))
                t == [id |-> qt, strict |-> TRUE,
                      end |-> c.now + c.NotificationDelay + c.GapCorrection]
            IN  IF c.NotificationDelay > 0
                   THEN [c2 EXCEPT !.notificationTime = c2.startTime + c.NotificationDelay,
                                   !.notifTimers = @ \cup {t},
                                   !.notifSlot = t]
                   ELSE SendAt(c2, "TrackStarted")

\* onTrackEndLocked
onTrackEndLockedAt(c) ==
    IF c.currentTrack = "" THEN c
    ELSE LET c1 == SendAt([c EXCEPT !.timer = ZeroTime], "TrackEnded")
         IN  playNextLockedAt([c1 EXCEPT !.played = Append(@, c.currentTrack),
                                         !.currentTrack = ""])

\* cancel of the notification-delay timer the controller holds
CancelNotificationDelayAt(c) ==
    [c EXCEPT !.notifTimers = @ \ {c.notifSlot}, !.notifSlot = NoTimer]

\* Controller.Pause on a playing track
PauseAt(c) ==
    LET c1 == CancelNotificationDelayAt([c EXCEPT !.timer = ZeroTime,
                                                  !.depletionTimer = ZeroTime,
                                                  !.remainingAtPause =
                                                       getRemainingDurationLocked(c),
                                                  !.undisturbed = FALSE])
        c2 == IF c1.now < c1.startTime
                 THEN [c1 EXCEPT !.pausedElapsed = @ + (c1.startTime - c1.now),
                                 !.startTime = c1.now]
                 ELSE c1
    IN  SendAt([c2 EXCEPT !.pausedAt = c2.now, !.state = "paused"], "StateChanged")

\* resumeLocked on a paused track
resumeLockedAt(c) ==
    LET c1 == [c EXCEPT !.pausedElapsed = IF c.pausedAt # ZeroTime
                                             THEN @ + (c.now - c.pausedAt) ELSE @,
                        !.pausedAt = ZeroTime,
                        !.state = "playing"]
        remaining == getRemainingDurationLocked(c1)
        t == [id |-> c.currentTrack, strict |-> FALSE, end |-> c.notificationTime]
        c2 == IF c1.notificationTime # ZeroTime /\ c1.now < c1.notificationTime
                 THEN [c1 EXCEPT !.notifTimers = @ \cup {t}, !.notifSlot = t]
                 ELSE c1
    IN  IF remaining <= 0
           THEN onTrackEndLockedAt(c1)
           ELSE SendAt(checkDepletionLockedAt(startTrackTimerAt(c2, remaining)),
                       "StateChanged")

\* Controller.Skip of a current track
SkipAt(c) ==
    LET c1 == CancelNotificationDelayAt([c EXCEPT !.timer = ZeroTime])
        c2 == SendAt(c1, "TrackSkipped")
    IN  playNextLockedAt([c2 EXCEPT !.currentTrack = "", !.state = "idle",
                                    !.pausedAt = ZeroTime, !.pausedElapsed = 0,
                                    !.notificationTime = ZeroTime])

\* Controller.Enqueue
EnqueueAt(c, id) ==
    checkDepletionLockedAt([c EXCEPT !.queue = Append(@, id),
                                     !.depletionNotified = FALSE,
                                     !.depletions = 0,
                                     !.enqueued = @ \cup {id}])

\* A step of the clock model leaves the rest alone and starts a new list of
\* sent events.
ClockOnly == UNCHANGED <<hubVars, regVars, sessVars, fltVars>>
Now(c) == [c EXCEPT !.sent = <<>>]

\* startWallClockTimer: the callback runs at a tick at which the wall clock
\* is after the end time, so a timer fires within one ticker period after it.
Expired(end) == end # ZeroTime /\ timed.now > end
Overdue(end) == end # ZeroTime /\ timed.now >= end + TickPeriod

\* Time passes, no timer being overdue.
Tick ==
    /\ ClockOnly
    /\ timed.now < MaxClock
    /\ ~Overdue(timed.timer)
    /\ ~Overdue(timed.depletionTimer)
    /\ \A t \in timed.notifTimers : ~Overdue(t.end)
    /\ timed' = [Now(timed) EXCEPT !.now = @ + 1,
                                   !.unpaused = IF timed.state = "playing" THEN @ + 1 ELSE @]

\* Controller.Play
ClockPlay ==
    /\ ClockOnly
    /\ timed.state # "playing"
    /\ timed' = IF timed.state = "paused" /\ timed.currentTrack # ""
                   THEN resumeLockedAt(Now(timed))
                   ELSE playNextLockedAt(Now(timed))

\* Controller.Pause
ClockPause ==
    /\ ClockOnly
    /\ timed.currentTrack # ""
    /\ timed.state = "playing"
    /\ timed' = PauseAt(Now(timed))

\* Controller.Resume
ClockResume ==
    /\ ClockOnly
    /\ timed.currentTrack # ""
    /\ timed.state = "paused"
    /\ timed' = resumeLockedAt(Now(timed))

\* Controller.Skip
ClockSkip ==
    /\ ClockOnly
    /\ timed.currentTrack # ""
    /\ timed' = SkipAt(Now(timed))

\* Controller.Enqueue of a track not enqueued before
ClockEnqueue(id) ==
    /\ ClockOnly
    /\ id \notin timed.enqueued
    /\ timed' = EnqueueAt(Now(timed), id)

\* The track-end timer fires: onTrackEnd.
ClockTrackTimerFires ==
    /\ ClockOnly
    /\ Expired(timed.timer)
    /\ timed' = onTrackEndLockedAt([Now(timed) EXCEPT !.timer = ZeroTime])

\* A notification-delay timer fires: the callback of playNextLocked (strict)
\* or of resumeLocked.
ClockNotifTimerFires(t) ==
    /\ ClockOnly
    /\ t \in timed.notifTimers
    /\ Expired(t.end)
    /\ LET c1 == [Now(timed) EXCEPT !.notifTimers = @ \ {t}, !.notifSlot = NoTimer]
       IN  timed' = IF c1.currentTrack = "" \/ (t.strict /\ c1.currentTrack # t.id)
                       THEN c1
                       ELSE SendAt(c1, "TrackStarted")

\* The depletion timer fires: checkDepletionLocked.
ClockDepletionTimerFires ==
    /\ ClockOnly
    /\ Expired(timed.depletionTimer)
    /\ timed' = checkDepletionLockedAt([Now(timed) EXCEPT !.depletionTimer = ZeroTime])

ClockInit ==
    /\ HubInit /\ RegInit /\ SessInit /\ flt = NoCall
    /\ timed \in {NewClockController(g, d) : g \in GapCorrections, d \in NotificationDelays}

ClockNext ==
    \/ Tick
    \/ ClockPlay
    \/ ClockPause
    \/ ClockResume
    \/ ClockSkip
    \/ \E id \in ClockTrackIDs : ClockEnqueue(id)
    \/ ClockTrackTimerFires
    \/ \E t \in timed.notifTimers : ClockNotifTimerFires(t)
    \/ ClockDepletionTimerFires

SpecClock == ClockInit /\ [][ClockNext]_vars


(***************************************************************************)
(* Claims                                                                  *)
(***************************************************************************)
Streams == {sub[s].stream : s \in Subscribers}

\* C3: sequence numbers are handed out strictly increasing in allocation
\* order by Broadcast, NextSequenceNo and Subscribe alike (so no two
\* notifications share one), and a Broadcast that starts after another one
\* has returned carries a greater number than that one.
C3_SequenceNoStrictlyIncreasing ==
    /\ \A i, j \in 1..Len(allocLog) : i < j => allocLog[i] < allocLog[j]
    /\ \A b \in Broadcasters : bcast[b].pc # "idle" => bcast[b].seq > bcast[b].floor
    /\ \A s \in Subscribers : \A i, j \in 1..Len(sub[s].stream) :
          i # j => sub[s].stream[i].seq # sub[s].stream[j].seq

\* Two broadcasts by different goroutines and one INITIAL_STATE allocation
\* happened, one broadcast starting after the other had returned.
C3_Witness ==
    /\ Len(allocLog) = MaxNotifications
    /\ \E b \in Broadcasters : bcast[b].pc # "idle" /\ bcast[b].floor >= 1
    /\ \E s \in Subscribers : sub[s].seq >= 1

\* C4: the first notification on a subscriber's stream is its INITIAL_STATE
\* and every later one carries a sequence number greater than it.
C4_InitialStateFirstAndLowest ==
    \A s \in Subscribers :
       sub[s].stream # <<>> =>
          /\ sub[s].stream[1].type = "INITIAL_STATE"
          /\ \A i \in 2..Len(sub[s].stream) : sub[s].stream[i].seq > sub[s].stream[1].seq

\* Delivered(s, n): notification n is on the stream of s.
Delivered(s, n) == \E i \in 1..Len(sub[s].stream) : sub[s].stream[i].seq = n

\* Pending(s, n): a send of n to s is still on its way (a Send goroutine, the
\* adapter's buffer, or the part of the buffer Flush has not written yet).
Pending(s, n) ==
    \/ \E m \in inflight : m.sub = s /\ m.seq = n
    \/ \E i \in 1..Len(sub[s].buffer) : sub[s].buffer[i].seq = n
    \/ \E i \in 1..Len(sub[s].flushing) : sub[s].flushing[i].seq = n

\* C5: a subscriber whose stream is open misses no broadcast numbered above
\* its INITIAL_STATE: once the fan-out of such a broadcast has been launched
\* the notification is on its way to the subscriber or on its stream.
C5_NoMissedEvent ==
    \A s \in Subscribers : \A n \in launched :
       (sub[s].pc = "streaming" /\ n > sub[s].seq) => (Delivered(s, n) \/ Pending(s, n))

\* C6: the notifications a subscriber receives after its INITIAL_STATE (the
\* broadcasts, whether flushed from the adapter's buffer or sent directly)
\* arrive in strictly increasing sequence_no order.
C6_StreamStrictlyIncreasing ==
    \A s \in Subscribers : \A i, j \in 2..Len(sub[s].stream) :
       i < j => sub[s].stream[i].seq < sub[s].stream[j].seq

\* C5 for the buffering handler alone.
BufferedNoMissedEvent ==
    \A s \in Subscribers : \A n \in launched :
       (sub[s].proto = "buffered" /\ sub[s].pc = "streaming" /\ n > sub[s].seq)
          => (Delivered(s, n) \/ Pending(s, n))

\* C7: pending_count >= 0 for every listener; IncrementPending followed by
\* DecrementPending leaves pending_count as it was; DecrementPending at 0
\* and DecrementPending of an unknown id change nothing.
C7_PendingCount ==
    /\ \A id \in DOMAIN listeners : listeners[id].PendingTracks >= 0
    /\ \A id \in DOMAIN listeners :
          DecrementPending(IncrementPending(listeners, id), id)[id].PendingTracks
             = listeners[id].PendingTracks
    /\ \A id \in DOMAIN listeners :
          listeners[id].PendingTracks = 0 => DecrementPending(listeners, id) = listeners
    /\ \A id \in AnyID \ DOMAIN listeners : DecrementPending(listeners, id) = listeners

\* A listener with a pending request and one with none are registered, and
\* an id is unknown.
C7_Witness ==
    /\ \E id \in DOMAIN listeners : listeners[id].PendingTracks = MaxPending
    /\ \E id \in DOMAIN listeners :
          listeners[id].PendingTracks = 0 /\ listeners[id].TotalRequests > 0
    /\ UnknownID \notin DOMAIN listeners

\* The order of the phases.
PhaseRank(ph) ==
    CASE ph = "waiting" -> 0
      [] ph = "active" -> 1
      [] ph = "ending" -> 2
      [] ph = "terminated" -> 3

\* C1: no step moves the phase backwards in the order waiting < active <
\* ending < terminated, and once the phase is terminated no step changes
\* the phase or sets accepting to true.
C1_PhaseNeverMovesBackwards ==
    [][/\ PhaseRank(phase') >= PhaseRank(phase)
       /\ phase = "terminated" => (phase' = "terminated" /\ (accepting' => accepting))]_vars

\* C2: in every state of the state store between two of its operations,
\* accepting = true implies phase = active.
C2_AcceptingImpliesActive == accepting => phase = "active"

\* The tracks of a queue as (id, requester type) pairs.
QueueEntries(q) == [i \in 1..Len(q) |-> <<q[i].id, q[i].rtype>>]

\* C8: a non-VIP listener has at most one pending request: its
\* pending_count is at most 1 and at most one of its tracks waits in the queue.
C8_OnePendingRequest ==
    \A id \in DOMAIN listeners :
       ~listeners[id].VIPStatus =>
          /\ listeners[id].PendingTracks <= 1
          /\ Cardinality({i \in 1..Len(ctl.queue) : ctl.queue[i].requester = id}) <= 1

\* C9: when transitionToEnding, entered in phase active with the ending
\* playlist loaded, returns: phase = ending, accepting = false, the queue is
\* exactly the ending playlist in order, every track queued before was
\* reported for removal from the session playlist, and the current track
\* and the played history are what they were when the transition began.
C9_EndingTransitionResult ==
    [][\A p \in Enders :
          (pc[p] = "toEndingAdd" /\ pc'[p] # "toEndingAdd") =>
             /\ phase' = "ending"
             /\ accepting' = FALSE
             /\ QueueEntries(ctl'.queue)
                   = [i \in 1..Len(EndingPlaylist) |-> <<EndingPlaylist[i], "ending">>]
             /\ {loc[p].pre.queue[i].id : i \in 1..Len(loc[p].pre.queue)} \subseteq loc[p].reported
             /\ ctl'.currentTrack = loc[p].pre.currentTrack
             /\ ctl'.played = loc[p].pre.played]_vars

\* C10: after the phase has become ending, no CHANGE_TRACK is broadcast
\* before a CHANGE_STATE carrying state ENDING and accepting_requests = false.
C10_EndingBroadcastBeforeChangeTrack ==
    endingAt >= 0 =>
       \A i \in (endingAt + 1)..Len(notifLog) :
          notifLog[i].type = "CHANGE_TRACK" =>
             \E j \in (endingAt + 1)..(i - 1) :
                /\ notifLog[j].type = "CHANGE_STATE"
                /\ notifLog[j].state = "ENDING"
                /\ ~notifLog[j].accepting

\* C11: whenever the phase becomes ending, the phase eventually becomes
\* terminated, with a final CHANGE_STATE broadcast and the done signal closed.
C11_EndingLeadsToTerminated ==
    (phase = "ending") ~>
       (/\ phase = "terminated"
        /\ doneClosed >= 1
        /\ \E i \in 1..Len(notifLog) :
              notifLog[i].type = "CHANGE_STATE" /\ notifLog[i].state = "TERMINATED")

\* C12: when terminateSession, called for a QueueEmpty event in phase ending,
\* terminates the session, the queue is empty and no track is current.
C12_TerminatesOnlyWhenExhausted ==
    [][(pc["consumer"] = "terminate" /\ phase' = "terminated" /\ phase # "terminated")
          => (ctl.queue = <<>> /\ ctl.currentTrack = NoTrack)]_vars

\* A CHANGE_STATE notification carrying state TERMINATED has been broadcast.
TerminalBroadcast ==
    \E i \in 1..Len(notifLog) :
       notifLog[i].type = "CHANGE_STATE" /\ notifLog[i].state = "TERMINATED"

\* C13: when StopImmediate, called in a phase other than terminated, returns:
\* the phase is terminated, the controller is idle without a current track,
\* accepting is false, a terminal CHANGE_STATE has been broadcast and the
\* done signal is closed.
C13_StopImmediateTerminates ==
    [][(/\ pc["stopImmediate"] # "done"
        /\ pc'["stopImmediate"] = "done"
        /\ ~(pc["stopImmediate"] = "begin" /\ phase = "terminated"))
          => (/\ phase' = "terminated"
              /\ ctl'.state = "idle"
              /\ ctl'.currentTrack = NoTrack
              /\ ~accepting'
              /\ TerminalBroadcast'
              /\ doneClosed' >= 1)]_vars

\* C14: Pause, Resume and Skip called in a phase other than active return an
\* error and leave the controller (state, current track, queue, timers) as
\* it is.
C14_AdminGuardedByPhase ==
    [][\A p \in {"pause", "resume", "skip"} :
          (pc[p] = "begin" /\ pc'[p] # "begin" /\ phase # "active")
             => (pc'[p] = "done" /\ loc'[p].result = "error" /\ ctl' = ctl)]_vars

\* The steps of RequestTrack up to the end of the filter chain.
RequestChecks == {"begin", "gate", "pending", "duplicate"}

Queued(id) == \E i \in 1..Len(ctl.queue) : ctl.queue[i].id = id

C17_AcceptanceGateDecision ==
    (flt.fn = "AcceptanceDoneFilter" /\ flt.out # <<>>) =>
        LET in == flt.in
            res == flt.out[1]
            deadline == IF in.endTime = <<>> THEN 0 ELSE in.endTime[1] - in.endingDur
            late == \/ in.now > deadline
                    \/ in.now + in.currentRemain + in.queueDuration >= deadline
        IN  /\ res = IF ~in.isAccepting THEN Reject("acceptance_done")
                     ELSE IF in.endTime # <<>> /\ late THEN Reject("time_limit_exceeded")
                     ELSE Accept
            /\ \A d \in 1..MaxDur :
                  AcceptanceDoneCheck([in EXCEPT !.trackDuration = d]) = res

\* A request that starts before the deadline and ends after it is accepted.
C17_Witness ==
    /\ flt.fn = "AcceptanceDoneFilter"
    /\ flt.out = <<Accept>>
    /\ flt.in.endTime # <<>>
    /\ LET start == flt.in.now + flt.in.currentRemain + flt.in.queueDuration
           deadline == flt.in.endTime[1] - flt.in.endingDur
       IN  start < deadline /\ start + flt.in.trackDuration > deadline

\* The normalized names of the tracks examined.
NormalizedName == [n \in TrackNames |-> normalizeTrackName(n)]

\* The two names are equal once normalized and the first artists are equal
\* without regard to case.
SameSong(a, b) ==
    /\ NormalizedName[a.Name] = NormalizedName[b.Name]
    /\ a.Artists # <<>>
    /\ b.Artists # <<>>
    /\ ToLower(a.Artists[1]) = ToLower(b.Artists[1])

\* C20: DuplicateTrackFilter.Check rejects with duplicate_track exactly when
\* an entry of played + current + queued has the id of the requested track,
\* or its normalized name and its first artist without regard to case; it
\* accepts in every other case, so a cover, a remix and any track on an empty
\* history are accepted.
C20_DuplicateDecision ==
    (flt.fn = "DuplicateTrackFilter" /\ flt.out # <<>>) =>
        LET h == flt.in.queuedTracks
            t == flt.in.track
            dup == \E i \in 1..Len(h) : h[i].ID = t.ID \/ SameSong(h[i], t)
        IN  flt.out[1] = IF dup THEN Reject("duplicate_track") ELSE Accept

\* A remaster under another id is rejected although the history also holds a
\* cover of the song.
C20_Witness ==
    /\ flt.fn = "DuplicateTrackFilter"
    /\ flt.out = <<Reject("duplicate_track")>>
    /\ Len(flt.in.queuedTracks) = MaxHistory
    /\ \A i \in 1..Len(flt.in.queuedTracks) :
          /\ flt.in.queuedTracks[i].ID # flt.in.track.ID
          /\ flt.in.queuedTracks[i].Name # flt.in.track.Name
    /\ \E i \in 1..Len(flt.in.queuedTracks) :
          /\ NormalizedName[flt.in.queuedTracks[i].Name] = NormalizedName[flt.in.track.Name]
          /\ ~isSameArtist(flt.in.queuedTracks[i], flt.in.track)

\* The filters of the chain that apply to the class of the request, in
\* registration order.
Applicable == SelectSeq(flt.filters, LAMBDA f : AppliesTo(f, flt.requesterType))

\* The position in Applicable of the first filter that rejects, 0 when none.
FirstRejecting ==
    LET R == {i \in 1..Len(Applicable) : ~Check(Applicable[i], flt.in).Accepted}
    IN  IF R = {} THEN 0 ELSE CHOOSE i \in R : \A j \in R : i <= j

\* C18: Chain.Execute checks the filters that apply to the class in
\* registration order, returns the result of the first that rejects without
\* checking a later one, and accepts when none rejects; with every filter
\* enabled the order is AcceptanceDone, Market, Kicked, UserPending,
\* DuplicateTrack, DurationLimit, and a request that is not of class USER is
\* checked by the Market filter only.
C18_ChainOrderAndShortCircuit ==
    (flt.fn = "Chain" /\ flt.out # <<>>) =>
        /\ IF FirstRejecting = 0
              THEN flt.out[1] = Accept /\ flt.evaluated = Applicable
              ELSE /\ flt.out[1] = Check(Applicable[FirstRejecting], flt.in)
                   /\ flt.evaluated = SubSeq(Applicable, 1, FirstRejecting)
        /\ Len(flt.filters) = 2 + Cardinality(OptionalFilters) =>
              flt.filters = <<"acceptance_done_filter", "market_filter",
                              "kicked_listener_filter", "user_pending_filter",
                              "duplicate_track_filter", "duration_limit_filter">>
        /\ flt.requesterType = "BGM" => flt.evaluated = <<"market_filter">>

\* A request of a kicked listener with a pending track, for a track already in
\* the history and too short, gets the code of the Kicked filter.
C18_Witness ==
    /\ flt.fn = "Chain"
    /\ flt.requesterType = "USER"
    /\ flt.out = <<Reject("kicked")>>
    /\ flt.evaluated = <<"acceptance_done_filter", "market_filter", "kicked_listener_filter">>
    /\ ~UserPendingCheck(flt.in.l).Accepted
    /\ ~DuplicateTrackCheck(flt.in.queuedTracks, flt.in.t).Accepted
    /\ ~DurationLimitCheck(flt.in.config, flt.in.t).Accepted

\* C19: no track that is unavailable in the configured market is in the
\* playback queue, whatever the class of its requester.
C19_NoUnavailableTrackQueued ==
    \A i \in 1..Len(ctl.queue) : ctl.queue[i].id \notin UnavailableInMarket

\* The Join calls i < j of the history that gave the same non-empty external id.
SameExternal(i, j) ==
    /\ i < j
    /\ joinLog[i].ext # ""
    /\ joinLog[i].ext = joinLog[j].ext

\* Join number i returned an id no earlier Join returned.
FreshJoin(i) == \A j \in 1..(i - 1) : joinLog[j].id # joinLog[i].id

\* C21 as stated: two Join calls with an equal non-empty external id return
\* equal ids and create one listener session, whatever Kick did in between;
\* Join with an empty external id allocates a fresh id.
C21_SameExternalIdSameListener ==
    /\ \A i, j \in 1..Len(joinLog) : SameExternal(i, j) => joinLog[i].id = joinLog[j].id
    /\ \A x \in ExternalIDs \ {""} :
          Cardinality({id \in DOMAIN listeners : listeners[id].ExternalUserID = x}) <= 1
    /\ \A i \in 1..Len(joinLog) : joinLog[i].ext = "" => FreshJoin(i)

\* C21: two Join calls with an equal non-empty external id return equal ids
\* unless the session the first one returned has been kicked; at most one
\* session that is not kicked holds a given external id; a Join returns the
\* session that is not kicked when there is one, without creating a session,
\* and a fresh id otherwise; Join with an empty external id always allocates
\* a fresh id.
C21_RejoinUnlessKicked ==
    /\ [](/\ \A i, j \in 1..Len(joinLog) :
               (SameExternal(i, j) /\ ~listeners[joinLog[i].id].IsKicked)
                  => joinLog[i].id = joinLog[j].id
          /\ \A x \in ExternalIDs \ {""} :
               Cardinality({id \in DOMAIN listeners :
                              listeners[id].ExternalUserID = x /\ ~listeners[id].IsKicked}) <= 1
          /\ \A i \in 1..Len(joinLog) : joinLog[i].ext = "" => FreshJoin(i))
    /\ [][Len(joinLog') > Len(joinLog) =>
             LET e == joinLog'[Len(joinLog')]
                 live == {id \in DOMAIN listeners :
                            /\ e.ext # ""
                            /\ listeners[id].ExternalUserID = e.ext
                            /\ ~listeners[id].IsKicked}
             IN  IF live # {}
                    THEN e.id \in live /\ listeners' = listeners
                    ELSE /\ e.id \notin DOMAIN listeners
                         /\ DOMAIN listeners' = DOMAIN listeners \cup {e.id}
                         /\ listeners'[e.id].ExternalUserID = e.ext
                         /\ ~listeners'[e.id].IsKicked]_vars

\* A listener joined twice under one external id with a request pending, was
\* kicked, and the next Join under that external id got another id.
C21_Witness ==
    /\ Len(joinLog) = MaxJoins
    /\ SameExternal(1, 2) /\ SameExternal(2, 3)
    /\ joinLog[1].id = joinLog[2].id
    /\ joinLog[3].id # joinLog[2].id
    /\ listeners[joinLog[1].id].IsKicked
    /\ listeners[joinLog[1].id].PendingTracks > 0

\* C22: every track that stops being the current track is appended to played
\* exactly once, at that step: a step after which another track (or none)
\* is current appends the track that was current, and nothing else, to
\* played; played only grows, and no track is at two places among queue,
\* current track and played.
Places(c) ==
    c.queue \o (IF c.currentTrack # NoTrack THEN <<c.currentTrack>> ELSE <<>>) \o c.played

C22_EndedTrackIsPlayed ==
    /\ [](\A i, j \in 1..Len(Places(ctl)) : Places(ctl)[i] = Places(ctl)[j] => i = j)
    /\ [][/\ Len(ctl'.played) >= Len(ctl.played)
          /\ SubSeq(ctl'.played, 1, Len(ctl.played)) = ctl.played
          /\ (ctl.currentTrack # NoTrack /\ ctl'.currentTrack # ctl.currentTrack)
                => ctl'.played = Append(ctl.played, ctl.currentTrack)]_vars

\* C23: a track-end timer acts only on the track it was started for: when
\* its callback runs onTrackEnd while another track is current, or while
\* playback is not playing (paused), it leaves the current track, the played
\* list and the playback state as they are.
C23_TimerActsOnItsTrack ==
    [][\A id \in ctl.ending \ ctl'.ending :
          (ctl.currentTrack.id # id \/ ctl.state # "playing")
             => /\ ctl'.currentTrack = ctl.currentTrack
                /\ ctl'.played = ctl.played
                /\ ctl'.state = ctl.state]_vars

\* C24: exactly one TrackStarted event per track that becomes current and is
\* not skipped or stopped before it is notified: no track has two
\* TrackStarted events, an event is sent for the track that is current, a
\* track that ends by itself (it is appended to played) has had its event,
\* and, playback being resumed after every Pause, a current track is
\* eventually notified or stops being current.
C24_ExactlyOneTrackStarted ==
    /\ [](\A i, j \in 1..Len(ctl.started) : ctl.started[i] = ctl.started[j] => i = j)
    /\ [][/\ ctl'.started # ctl.started
                => ctl'.started = Append(ctl.started, ctl.currentTrack.id)
          /\ Len(ctl'.played) > Len(ctl.played)
                => \E i \in 1..Len(ctl'.started) :
                      ctl'.started[i] = ctl'.played[Len(ctl'.played)].id]_vars
    /\ []<>(ctl.state # "paused")
          => \A id \in {"o1", "t1"} :
                (ctl.currentTrack.id = id)
                   ~> (ctl.currentTrack.id # id
                          \/ \E i \in 1..Len(ctl.started) : ctl.started[i] = id)

\* C25: no listener stays blocked: once a request of a non-VIP listener has
\* been accepted and its track is no longer in the queue, the listener's
\* pending count eventually is 0 (playback not being left paused for ever).
C25_PendingReturnsToZero ==
    []<>(ctl.state # "paused") =>
       \A r \in {"r1"} :
          (pc[r] = "done" /\ loc[r].result = "accepted" /\ ~Queued(ReqTrack(r)))
             ~> (\A id \in DOMAIN listeners \cap {ReqListener(r)} :
                    listeners[id].PendingTracks = 0)

\* C26: QueueDepleting is sent at most once between two consecutive
\* enqueues, and whenever the state is playing and the total remaining time
\* is below the threshold and above 0, the event has been sent since the
\* last enqueue or the depletion timer is at its end and about to send it.
C26_DepletionOncePerDip ==
    /\ timed.depletions <= 1
    /\ (/\ timed.state = "playing"
        /\ totalRemaining(timed) > 0
        /\ totalRemaining(timed) < DepletionThreshold)
          => (timed.depletions = 1 \/ Expired(timed.depletionTimer))

\* The events of type type the last step sent.
Sent(c, type) == {i \in 1..Len(c.sent) : c.sent[i].type = type}

\* C27: a track made current at time t (startedAt) with gap correction g and
\* notification delay d, and not paused since: its conceptual start
\* (startTime) is t + g; the step that ends it by its timer comes after
\* t + g + duration has passed, at the timer's first tick, and the track is
\* not current beyond that; with d > 0 its TrackStarted event is sent after
\* t + g + d has passed, at the timer's first tick, for the track then
\* current, once, and is not outstanding beyond that; with d = 0 it is sent
\* by the step that makes the track current.
C27_StartTiming ==
    /\ [](timed.currentTrack # "" /\ timed.undisturbed =>
             LET start == timed.startedAt + timed.GapCorrection
                 notification == start + timed.NotificationDelay
             IN  /\ timed.startTime = start
                 /\ timed.now <= start + Duration(timed.currentTrack) + TickPeriod
                 /\ timed.notified <= 1
                 /\ timed.NotificationDelay = 0 => timed.notified = 1
                 /\ timed.now > notification + TickPeriod => timed.notified = 1)
    /\ [][timed.currentTrack # "" /\ timed.undisturbed =>
             LET start == timed.startedAt + timed.GapCorrection
                 notification == start + timed.NotificationDelay
             IN  /\ (\E i \in Sent(timed', "TrackEnded") :
                        timed'.sent[i].track = timed.currentTrack)
                       => /\ timed'.now > start + Duration(timed.currentTrack)
                          /\ timed'.now <= start + Duration(timed.currentTrack) + TickPeriod
                 /\ (timed'.currentTrack = timed.currentTrack /\ timed'.notified > timed.notified)
                       => /\ timed.NotificationDelay > 0
                          /\ timed'.now > notification
                          /\ timed'.now <= notification + TickPeriod]_vars

\* The time a track has played: its time in state playing since it became
\* current, less the gap before its conceptual start.
Elapsed(c) ==
    IF c.unpaused > c.GapCorrection THEN c.unpaused - c.GapCorrection ELSE 0

\* C28: Pause and Resume keep elapsed + remaining = duration: while a track
\* is current (and before its end) the remaining duration is the duration
\* less the time played; while the state is paused it is what it was right
\* before Pause; right after Resume it is that value still, and the
\* track-end timer Resume arms ends that long after Resume.
C28_PauseResumeKeepsRemaining ==
    /\ [](timed.currentTrack # "" /\ Elapsed(timed) <= Duration(timed.currentTrack)
             => Elapsed(timed) + getRemainingDurationLocked(timed)
                   = Duration(timed.currentTrack))
    /\ [](timed.state = "paused"
             => getRemainingDurationLocked(timed) = timed.remainingAtPause)
    /\ [][(/\ timed.state = "paused"
           /\ timed'.state = "playing"
           /\ timed'.currentTrack = timed.currentTrack)
             => /\ getRemainingDurationLocked(timed') = timed.remainingAtPause
                /\ timed'.timer = timed'.now + timed.remainingAtPause]_vars

\* The tracks of a list.
Tracks(q) == {q[i] : i \in 1..Len(q)}

\* C29: the playback state is idle exactly when there is no current track,
\* and in state playing or paused the current track is neither in the queue
\* nor in played.
C29_StateMatchesCurrentTrack ==
    /\ (ctl.state = "idle") <=> (ctl.currentTrack = NoTrack)
    /\ ctl.state \in {"playing", "paused"}
          => /\ ctl.currentTrack \notin Tracks(ctl.queue)
             /\ ctl.currentTrack \notin Tracks(ctl.played)

\* A track plays with tracks before it in played and after it in the queue.
C29_Witness ==
    /\ ctl.state = "playing"
    /\ ctl.currentTrack # NoTrack
    /\ ctl.played # <<>>
    /\ ctl.queue # <<>>

\* The tracks enqueued so far that ClearQueue did not remove, in the order
\* they were enqueued.
Uncleared(c) == SelectSeq(c.enqueued, LAMBDA t : t \notin c.cleared)

Appends(rtype) ==
    /\ Len(ctl'.enqueued) = Len(ctl.enqueued) + 1
    /\ ctl'.enqueued[Len(ctl'.enqueued)].rtype = rtype

C31_BGMRefillGuarded ==
    [][Appends("bgm") => phase = "active" /\ accepting /\ ctl.queue = <<>>]_vars

(***************************************************************************)
(* C32: when the session was started without an opening playlist and the   *)
(* BGM providers returned a candidate the filter chain accepts, the queue  *)
(* holds one BGM track at the step that makes the session active and       *)
(* accepting.                                                              *)
(***************************************************************************)
C32_PreloadedBeforeActivation ==
    [][/\ ~(phase = "active" /\ accepting)
       /\ phase' = "active" /\ accepting'
       /\ loc["start"].opening = <<>>
       /\ loc["start"].offered # ""
       /\ loc["start"].offered \notin UnavailableInMarket
       => /\ Len(ctl'.queue) = 1
          /\ ctl'.queue[1].rtype = "bgm"]_vars

(***************************************************************************)
(* C33: a USER track is appended to the queue only while requests are      *)
(* accepted: never once the phase is ending or terminated.                 *)
(***************************************************************************)
C33_NoUserTrackAfterAccepting ==
    [][Appends("user") => accepting /\ phase \notin {"ending", "terminated"}]_vars

(***************************************************************************)
(* C34: once the session is terminated and its termination has stopped the *)
(* playback (the done signal is closed after Controller.Stop returned),    *)
(* the playback state is idle and there is no current track.               *)
(***************************************************************************)
C34_TerminatedStaysStopped ==
    phase = "terminated" /\ doneClosed > 0
        => ctl.state = "idle" /\ ctl.currentTrack = NoTrack

(***************************************************************************)
(* C35: the done signal is closed at most once, and it is closed only      *)
(* while the phase is terminated.                                          *)
(***************************************************************************)
C35_DoneClosedOnce ==
    /\ doneClosed <= 1
    /\ doneClosed > 0 => phase = "terminated"

(***************************************************************************)
(* C36: played + current + queued never holds two USER-requested entries   *)
(* with the same track id.                                                 *)
(***************************************************************************)
C36_NoDuplicateUserTrack ==
    \A i, j \in 1..Len(Places(ctl)) :
        /\ Places(ctl)[i].rtype = "user"
        /\ Places(ctl)[j].rtype = "user"
        /\ Places(ctl)[i].id = Places(ctl)[j].id
        => i = j

(***************************************************************************)
(* C37: the notification-delay slot holds at most one live timer, and      *)
(* every live timer of the slot is the one its cancel handle refers to:    *)
(* a timer that was replaced has been cancelled, and no callback has       *)
(* cleared the handle of a newer timer.                                    *)
(***************************************************************************)
C37_OneLiveTimerPerSlot ==
    /\ Cardinality(timed.notifTimers) <= 1
    /\ \A t \in timed.notifTimers : timed.notifSlot = t

(***************************************************************************)
(* C38: the event channel never holds more than its capacity (a send on a  *)
(* full channel drops the event instead of waiting), a spawned Play can    *)
(* always run, and whoever holds the Session Manager's lock can always     *)
(* take its next step: nothing it waits for is held by a goroutine that    *)
(* waits for the Session Manager's lock or for the event consumer.         *)
(***************************************************************************)
\* The holder of Manager.mu takes a step.
HolderSteps == StopNext /\ (pc'[mu] # pc[mu] \/ loc'[mu] # loc[mu] \/ mu' # mu)

Range(s) == {s[i] : i \in 1..Len(s)}

\* None of the candidate's artists is in the window.
Fresh(window, c) == Range(c.artists) \cap Range(window) = {}

C39_FilterByRecentArtists ==
    flt.fn = "filterByRecentArtists" /\ flt.out # <<>> =>
        LET kept == SelectSeq(flt.in, LAMBDA c : Fresh(flt.before, c))
        IN  IF flt.maxRecentArtists = 0
               THEN flt.out[1] = flt.in /\ flt.recentArtists = flt.before
            ELSE IF kept = <<>> /\ flt.before # <<>>
               THEN flt.out[1] = flt.in /\ flt.recentArtists = <<>>
            ELSE flt.out[1] = kept /\ flt.recentArtists = flt.before

\* A call that dropped a candidate with a recent second artist and kept
\* another.
C39_Witness ==
    /\ flt.fn = "filterByRecentArtists"
    /\ flt.out # <<>>
    /\ flt.before = <<"y">>
    /\ flt.in = <<[id |-> "k3", artists |-> <<"x", "y">>], [id |-> "k1", artists |-> <<"x">>]>>
    /\ flt.out[1] = <<[id |-> "k1", artists |-> <<"x">>]>>

(***************************************************************************)
(* C40: GetRemainingDuration is between 0 and the duration of the current  *)
(* track, and 0 when there is no current track.                            *)
(***************************************************************************)
C40_RemainingWithinDuration ==
    /\ getRemainingDurationLocked(timed) >= 0
    /\ timed.currentTrack = "" => getRemainingDurationLocked(timed) = 0
    /\ timed.currentTrack # ""
          => getRemainingDurationLocked(timed) <= Duration(timed.currentTrack)

====
